---- MODULE Spec2Model ----
(***************************************************************************)
(* Model of the DataflowVisualizer class of src/app.js: the trace-to-graph *)
(* binding, the port-mapping resolver, the token-queue model and the       *)
(* playback state machine driven by user operations and a periodic timer.  *)
(*                                                                         *)
(* Opcode names are sequences of one-character strings so that the         *)
(* substring and end-anchored tests of the resolver are computed.          *)
(* Argument tokens are atomic strings; the few conversions the code        *)
(* applies to them (Number, toLowerCase, includes('->')) are tables over   *)
(* the token alphabet of the modelled traces.                              *)
(***************************************************************************)
EXTENDS Integers, Sequences, FiniteSets, TLC

(***************************************************************************)
(* Bounds of the model (not program constants).                            *)
(***************************************************************************)
MaxStepSize == 2
MaxQueueLen == 2
MaxPendingRenders == 1
MaxJumpTarget == 3

\* JavaScript null / undefined (the code tests both together).
Null == "null"
\* NaN and -Infinity are integers below every number of the model; the
\* operators that receive them test for them as the code does.
NaN == 0 - 2000
NegInfinity == 0 - 1000
isNaN(x) == x = NaN

Min2(a, b) == IF a <= b THEN a ELSE b
Max2(a, b) == IF a >= b THEN a ELSE b
\* a + b in JavaScript numbers, where -Infinity absorbs
Plus(a, b) == IF a = NegInfinity THEN NegInfinity ELSE a + b

\* the element of a singleton: Only({e : x \in {v}}) is e with x bound to
\* the value of v, evaluated once
Only(S) == CHOOSE y \in S : TRUE

(***************************************************************************)
(* Strings as character sequences.                                         *)
(***************************************************************************)
LowerChar(c) ==
    CASE c = "A" -> "a" [] c = "B" -> "b" [] c = "C" -> "c" [] c = "D" -> "d"
      [] c = "E" -> "e" [] c = "F" -> "f" [] c = "G" -> "g" [] c = "I" -> "i"
      [] c = "L" -> "l" [] c = "M" -> "m" [] c = "N" -> "n" [] c = "O" -> "o"
      [] c = "R" -> "r" [] c = "S" -> "s" [] c = "T" -> "t" [] c = "U" -> "u"
      [] OTHER -> c

ToLowerCase(s) == [i \in 1..Len(s) |-> LowerChar(s[i])]

\* String.prototype.includes
Includes(s, p) ==
    \E i \in 0..(Len(s) - Len(p)) : \A j \in 1..Len(p) : s[i + j] = p[j]

\* a regular expression alternative of the form  p$
EndsWith(s, p) ==
    /\ Len(s) >= Len(p)
    /\ \A j \in 1..Len(p) : s[Len(s) - Len(p) + j] = p[j]

(***************************************************************************)
(* Argument tokens: the conversions the code applies to them.              *)
(***************************************************************************)
\* Number(token) for the tokens that are numeric; every other token is NaN
NumberOf ==
    [t \in {"0", "1", "2", "3", "5", "8", "58"} |->
        CASE t = "0" -> 0 [] t = "1" -> 1 [] t = "2" -> 2 [] t = "3" -> 3
          [] t = "5" -> 5 [] t = "8" -> 8 [] t = "58" -> 58]

\* faulty variant: the token after the label is not tested
IsNumeric_Always(t) == TRUE

\* !isNaN(Number(token))
IsNumeric(t) == t \in DOMAIN NumberOf

\* token.includes('->')
HasArrow(t) == t \in {"INIT->BLOCK", "BLOCK->BLOCK", "BLOCK->INIT"}

\* faulty variant: the flag is compared without lower-casing
TokenLower_CaseSensitive(t) == t

\* String(token).toLowerCase()
TokenLower(t) ==
    CASE t = "FALSE" -> "false" [] t = "False" -> "false"
      [] t = "TRUE" -> "true" [] t = "True" -> "true"
      [] OTHER -> t

(***************************************************************************)
(* Inputs: trace files and graph descriptions.                             *)
(*                                                                         *)
(* A trace file is a sequence of lines.  A line that matches fireLogRegex  *)
(* carries the captured groups; any other line is malformed.               *)
(***************************************************************************)
Line(c, id, name, args) ==
    [matches |-> TRUE, cycle |-> c, instructionId |-> id,
     instructionName |-> name, args |-> args]

Malformed ==
    [matches |-> FALSE, cycle |-> 0, instructionId |-> 0,
     instructionName |-> <<>>, args |-> <<>>]

\* [1] (3) copy 58 58 / [2] (0) c0 0 / [2] (5) carry INIT->BLOCK 0 / garbage
LogA ==
    << Line(1, 3, <<"c","o","p","y">>, <<"58", "58">>),
       Line(2, 0, <<"c","0">>, <<"0">>),
       Line(2, 5, <<"c","a","r","r","y">>, <<"INIT->BLOCK", "0">>),
       Malformed >>

\* [0] (1) add 5 3 8 / [1] (1) add 1 1 2 / [2] (2) dataflow.steer true 2 0
LogB ==
    << Line(0, 1, <<"a","d","d">>, <<"5", "3", "8">>),
       Line(1, 1, <<"a","d","d">>, <<"1", "1", "2">>),
       Line(2, 2, <<"d","a","t","a","f","l","o","w",".","s","t","e","e","r">>, <<"true", "2", "0">>) >>

\* a file none of whose lines matches the grammar
LogEmpty == << Malformed >>

\* a blank line: it does not match the grammar either
Blank ==
    [matches |-> FALSE, blank |-> TRUE, cycle |-> 0, instructionId |-> 0,
     instructionName |-> <<>>, args |-> <<>>]

IsBlank(l) == "blank" \in DOMAIN l

\* Trace files of at most MaxLines lines: two firing lines of cycle 1, one
\* of cycle 0, a malformed line and a blank line, in every order.
MaxLines == 4

ParseLines ==
    { Line(1, 1, <<"a","d","d">>, <<"1", "1", "2">>),
      Line(0, 2, <<"c","0">>, <<"0">>),
      Line(1, 3, <<"c","o","p","y">>, <<"58", "58">>),
      Malformed,
      Blank }

ParseFiles == UNION {[1..n -> ParseLines] : n \in 0..MaxLines}

FireLogFiles == {LogA, LogB, LogEmpty}

\* the opcode names of the trace files
OpcodeNames ==
    UNION {{f[i].instructionName : i \in 1..Len(f)} : f \in FireLogFiles}

\* Single-event traces: one firing line  [0] (4) <name> <args>  of a node
\* with several outgoing edges, for every opcode name of PortOpcodeNames and
\* every argument list of at most MaxArgs tokens.
MaxArgs == 4

\* tokens of any position: a numeric and a non-numeric one
PortTokens == {"1", "true"}

\* tokens of the last position (a steer flag or channel): zero, and the
\* word false in two letter cases
FlagTokens == {"0", "false", "False"}

\* the transition labels of a carry line, as a first token
TransitionLabels == {"INIT->BLOCK", "BLOCK->INIT"}

PlainArgLists(n) == UNION {[1..k -> PortTokens] : k \in 0..n}

ArgLists ==
    PlainArgLists(MaxArgs)
        \cup {Append(a, f) : a \in PlainArgLists(MaxArgs - 1), f \in FlagTokens}

LabelledArgLists ==
    {<<l>> \o a : l \in TransitionLabels, a \in PlainArgLists(2)}

\* the opcode names of the documented port mappings
PortOpcodeNames ==
    { <<"s","t","o","r","e">>,
      <<"s","t","o","r","e","I","n","d","e","x">>,
      <<"s","e","n","d">>,
      <<"a","d","d">>,
      <<"d","a","t","a","f","l","o","w",".","s","t","e","e","r">>,
      <<"t","r","u","e","_","s","t","e","e","r">>,
      <<"m","e","r","g","e">>,
      <<"r","i","p","t","i","d","e",".","m","e","r","g","e">>,
      <<"m","u","l">>,
      <<"e","q">>,
      <<"a","n","d">>,
      <<"o","r","d","e","r">>,
      <<"e","x","t","s","i">>,
      <<"t","r","u","n","c","i">>,
      <<"c","o","n","s","t","a","n","t">>,
      <<"c","0">>,
      <<"c","o","p","y">>,
      <<"b","i","t","c","a","s","t">>,
      <<"f","r","e","e","z","e">>,
      <<"l","o","a","d">>,
      <<"l","o","a","d","I","n","d","e","x">>,
      <<"c","a","r","r","y">>,
      <<"s","t","r","e","a","m">>,
      <<"r","i","p","t","i","d","e",".","s","t","r","e","a","m">>,
      <<"p","c","o","n","s","t","_","a","r","g","4">>,
      <<"i","n","v","a","r","i","a","n","t">> }

\* the argument lists of the single-event traces of an opcode name
PortArgs(name) ==
    IF name = <<"c","a","r","r","y">> THEN ArgLists \cup LabelledArgLists
    ELSE ArgLists

PortLog(name, args) == << Line(0, 4, name, args) >>

\* A trace whose cycles mix bound and unbound events and fire a node twice:
\*   [0] (1) add 5 3 8 / [0] (9) add 1 1 2 / [0] (3) c0 0
\*   [1] (2) dataflow.steer true 2 0 / [1] (2) dataflow.steer true 5 1
\*   [2] (2) dataflow.steer true 2 0 / [2] (1) add 1 1 2
LogMix ==
    << Line(0, 1, <<"a","d","d">>, <<"5", "3", "8">>),
       Line(0, 9, <<"a","d","d">>, <<"1", "1", "2">>),
       Line(0, 3, <<"c","0">>, <<"0">>),
       Line(1, 2, <<"d","a","t","a","f","l","o","w",".","s","t","e","e","r">>, <<"true", "2", "0">>),
       Line(1, 2, <<"d","a","t","a","f","l","o","w",".","s","t","e","e","r">>, <<"true", "5", "1">>),
       Line(2, 2, <<"d","a","t","a","f","l","o","w",".","s","t","e","e","r">>, <<"true", "2", "0">>),
       Line(2, 1, <<"a","d","d">>, <<"1", "1", "2">>) >>

RenderLogFiles == {LogMix, LogB}

(***************************************************************************)
(* Port-Mapping Resolver: _getResValueForIndex.                            *)
(***************************************************************************)
\* alternatives of the first regular expression that match anywhere
BinaryAnywhere ==
    { <<"a","d","d">>, <<"s","u","b">>, <<"m","u","l">>, <<"d","i","v">>,
      <<"r","e","m">>, <<"a","n","d","_">>, <<"o","r","_">>,
      <<"x","o","r">>, <<"s","h","l">>, <<"a","s","h","r">>,
      <<"l","s","h","r">> }

\* alternatives of the first regular expression anchored at the end
BinaryAtEnd ==
    { <<"a","d","d">>, <<"a","n","d">>, <<"o","r">>, <<"x","o","r">>,
      <<"s","h","l">>, <<"a","s","h","r">>, <<"l","s","h","r">>,
      <<"e","q">>, <<"n","e">>, <<"l","t">>, <<"g","t">>, <<"l","e">>,
      <<"g","e">> }

\* alternatives of the second (bitwise) regular expression
BitwiseAnywhere ==
    { <<"a","n","d">>, <<"o","r">>, <<"x","o","r">>, <<"s","h","l">>,
      <<"a","s","h","r">>, <<"l","s","h","r">> }

ConversionAnywhere ==
    { <<"e","x","t","s","i">>, <<"e","x","t","u","i">>,
      <<"t","r","u","n","c","i">>, <<"f","p","t","o","u","i">>,
      <<"f","p","t","o","s","i">>, <<"s","i","t","o","f","p">>,
      <<"u","i","t","o","f","p">>, <<"a","b","s">>, <<"n","e","g">> }

\* constant|c0|copy|dataflow\.constant|dataflow.copy|bitcast|freeze
ConstantAnywhere ==
    { <<"c","o","n","s","t","a","n","t">>, <<"c","0">>,
      <<"c","o","p","y">>, <<"b","i","t","c","a","s","t">>,
      <<"f","r","e","e","z","e">> }

MatchesAny(name, pats) == \E p \in pats : Includes(name, p)
MatchesEnd(name, pats) == \E p \in pats : EndsWith(name, p)

\* faulty variant: at(i) without the range test, so that a read outside
\* the arguments yields the JavaScript value undefined as a token
At_NoRangeTest(args, i) ==
    IF i >= 0 /\ i < Len(args) THEN args[i + 1] ELSE "undefined"

\* faulty variant: at(i) reading the arguments 1-indexed
At_OneBased(args, i) == IF i >= 1 /\ i <= Len(args) THEN args[i] ELSE Null

\* the helper  at(i)  of _getResValueForIndex, 0-indexed
At(args, i) == IF i >= 0 /\ i < Len(args) THEN args[i + 1] ELSE Null

\* the tests that _getResValueForIndex applies to the lower-cased name
NameTests(instructionName) ==
    Only({
       [carry |-> Includes(name, <<"c","a","r","r","y">>),
        stream |-> Includes(name, <<"s","t","r","e","a","m">>),
        binary |-> \/ MatchesAny(name, BinaryAnywhere)
                   \/ MatchesEnd(name, BinaryAtEnd),
        bitwise |-> MatchesAny(name, BitwiseAnywhere),
        conversion |-> MatchesAny(name, ConversionAnywhere),
        constant |-> MatchesAny(name, ConstantAnywhere),
        steer |-> Includes(name, <<"s","t","e","e","r">>),
        dataflowSteer |-> Includes(name, <<"d","a","t","a","f","l","o","w",".","s","t","e","e","r">>),
        loadindex |-> Includes(name, <<"l","o","a","d","i","n","d","e","x">>),
        load |-> Includes(name, <<"l","o","a","d">>),
        store |-> Includes(name, <<"s","t","o","r","e">>),
        send |-> Includes(name, <<"s","e","n","d">>),
        merge |-> Includes(name, <<"m","e","r","g","e">>)]
       : name \in {ToLowerCase(instructionName)}})

\* the tests of the names that occur in the trace files, computed once
NameTable == [n \in OpcodeNames \cup PortOpcodeNames |-> NameTests(n)] @@ <<>>

TestsOf(instructionName) ==
    IF instructionName \in DOMAIN NameTable THEN NameTable[instructionName]
    ELSE NameTests(instructionName)

\* faulty variant: the data of a dataflow.steer always leaves at port 0
_getResValueForIndex_SteerPortZero(instr, resIndex) ==
    LET args == instr.args
        port0(v) == IF resIndex = 0 THEN v ELSE Null
    IN Only({(
        IF Len(instr.instructionName) = 0 THEN Null
        ELSE IF is.carry /\ Len(args) = 0 THEN Null
        ELSE IF is.carry /\ HasArrow(args[1]) THEN
            IF Len(args) >= 2 /\ IsNumeric(args[2]) THEN port0(args[2])
            ELSE Null
        ELSE IF is.stream THEN
            IF Len(args) = 0 THEN Null ELSE At(args, resIndex)
        ELSE IF is.binary THEN port0(At(args, 2))
        ELSE IF is.bitwise THEN port0(At(args, 2))
        ELSE IF is.conversion THEN port0(At(args, 1))
        ELSE IF is.constant THEN port0(At(args, 0))
        ELSE IF is.steer /\ is.dataflowSteer /\ Len(args) >= 3 THEN
            port0(At(args, 1))
        ELSE IF is.steer /\ Len(args) >= 3 THEN
            IF resIndex = 0 /\ args[3] # "0" /\ TokenLower(args[3]) # "false"
                THEN At(args, 1) ELSE Null
        ELSE IF is.loadindex THEN port0(At(args, 3))
        ELSE IF is.load THEN port0(At(args, 2))
        ELSE IF is.store THEN Null
        ELSE IF is.send THEN Null
        ELSE IF is.merge /\ Len(args) >= 1 THEN port0(At(args, 0))
        ELSE IF resIndex = 0 /\ Len(args) > 0 THEN At(args, Len(args) - 1)
        ELSE Null)
        : is \in {TestsOf(instr.instructionName)}})

\* faulty variant: the default rule returns the first arg
_getResValueForIndex_DefaultFirst(instr, resIndex) ==
    LET args == instr.args
        port0(v) == IF resIndex = 0 THEN v ELSE Null
    IN Only({(
        IF Len(instr.instructionName) = 0 THEN Null
        ELSE IF is.carry /\ Len(args) = 0 THEN Null
        ELSE IF is.carry /\ HasArrow(args[1]) THEN
            IF Len(args) >= 2 /\ IsNumeric(args[2]) THEN port0(args[2])
            ELSE Null
        ELSE IF is.stream THEN
            IF Len(args) = 0 THEN Null ELSE At(args, resIndex)
        ELSE IF is.binary THEN port0(At(args, 2))
        ELSE IF is.bitwise THEN port0(At(args, 2))
        ELSE IF is.conversion THEN port0(At(args, 1))
        ELSE IF is.constant THEN port0(At(args, 0))
        ELSE IF is.steer /\ is.dataflowSteer /\ Len(args) >= 3 THEN
            IF IsNumeric(args[3]) /\ resIndex = NumberOf[args[3]]
                THEN At(args, 1) ELSE Null
        ELSE IF is.steer /\ Len(args) >= 3 THEN
            IF resIndex = 0 /\ args[3] # "0" /\ TokenLower(args[3]) # "false"
                THEN At(args, 1) ELSE Null
        ELSE IF is.loadindex THEN port0(At(args, 3))
        ELSE IF is.load THEN port0(At(args, 2))
        ELSE IF is.store THEN Null
        ELSE IF is.send THEN Null
        ELSE IF is.merge /\ Len(args) >= 1 THEN port0(At(args, 0))
        ELSE IF resIndex = 0 /\ Len(args) > 0 THEN At(args, 0)
        ELSE Null)
        : is \in {TestsOf(instr.instructionName)}})

\* faulty variant: a stream has the single output res[0] = args[0]
_getResValueForIndex_StreamPortZero(instr, resIndex) ==
    LET args == instr.args
        port0(v) == IF resIndex = 0 THEN v ELSE Null
    IN Only({(
        IF Len(instr.instructionName) = 0 THEN Null
        ELSE IF is.carry /\ Len(args) = 0 THEN Null
        ELSE IF is.carry /\ HasArrow(args[1]) THEN
            IF Len(args) >= 2 /\ IsNumeric(args[2]) THEN port0(args[2])
            ELSE Null
        ELSE IF is.stream THEN
            IF Len(args) = 0 THEN Null ELSE port0(At(args, 0))
        ELSE IF is.binary THEN port0(At(args, 2))
        ELSE IF is.bitwise THEN port0(At(args, 2))
        ELSE IF is.conversion THEN port0(At(args, 1))
        ELSE IF is.constant THEN port0(At(args, 0))
        ELSE IF is.steer /\ is.dataflowSteer /\ Len(args) >= 3 THEN
            IF IsNumeric(args[3]) /\ resIndex = NumberOf[args[3]]
                THEN At(args, 1) ELSE Null
        ELSE IF is.steer /\ Len(args) >= 3 THEN
            IF resIndex = 0 /\ args[3] # "0" /\ TokenLower(args[3]) # "false"
                THEN At(args, 1) ELSE Null
        ELSE IF is.loadindex THEN port0(At(args, 3))
        ELSE IF is.load THEN port0(At(args, 2))
        ELSE IF is.store THEN Null
        ELSE IF is.send THEN Null
        ELSE IF is.merge /\ Len(args) >= 1 THEN port0(At(args, 0))
        ELSE IF resIndex = 0 /\ Len(args) > 0 THEN At(args, Len(args) - 1)
        ELSE Null)
        : is \in {TestsOf(instr.instructionName)}})

_getResValueForIndex(instr, resIndex) ==
    LET args == instr.args
        port0(v) == IF resIndex = 0 THEN v ELSE Null
    IN Only({(
        IF Len(instr.instructionName) = 0 THEN Null
        ELSE IF is.carry /\ Len(args) = 0 THEN Null
        ELSE IF is.carry /\ HasArrow(args[1]) THEN
            IF Len(args) >= 2 /\ IsNumeric(args[2]) THEN port0(args[2])
            ELSE Null
        ELSE IF is.stream THEN
            IF Len(args) = 0 THEN Null ELSE At(args, resIndex)
        ELSE IF is.binary THEN port0(At(args, 2))
        ELSE IF is.bitwise THEN port0(At(args, 2))
        ELSE IF is.conversion THEN port0(At(args, 1))
        ELSE IF is.constant THEN port0(At(args, 0))
        ELSE IF is.steer /\ is.dataflowSteer /\ Len(args) >= 3 THEN
            IF IsNumeric(args[3]) /\ resIndex = NumberOf[args[3]]
                THEN At(args, 1) ELSE Null
        ELSE IF is.steer /\ Len(args) >= 3 THEN
            IF resIndex = 0 /\ args[3] # "0" /\ TokenLower(args[3]) # "false"
                THEN At(args, 1) ELSE Null
        ELSE IF is.loadindex THEN port0(At(args, 3))
        ELSE IF is.load THEN port0(At(args, 2))
        ELSE IF is.store THEN Null
        ELSE IF is.send THEN Null
        ELSE IF is.merge /\ Len(args) >= 1 THEN port0(At(args, 0))
        ELSE IF resIndex = 0 /\ Len(args) > 0 THEN At(args, Len(args) - 1)
        ELSE Null)
        : is \in {TestsOf(instr.instructionName)}})

\* A rendered node: its <title> and the stable id of its [ID:n] marker.
NoId == 0 - 1
Node(name, id) == [name |-> name, id |-> id]

\* An edge <title> is  src[:port]->dst[:port] ; a port is absent or res<k>/op<k>.
NoPort == [kind |-> "none", idx |-> 0]
ResPort(k) == [kind |-> "res", idx |-> k]
OpPort(k) == [kind |-> "op", idx |-> k]
\* a port of another name (a record field or a compass point, as in  a:s->b)
NamedPort == [kind |-> "name", idx |-> 0]
\* An edge label is absent or  res[i]->op[j]
NoLabel == [present |-> FALSE, res |-> 0, op |-> 0]
Label(i, j) == [present |-> TRUE, res |-> i, op |-> j]

Edge(src, sp, dst, dp, label) ==
    [src |-> src, srcPort |-> sp, dst |-> dst, dstPort |-> dp, label |-> label]

SvgA ==
    [svg |-> TRUE,
     nodes |-> << Node("copy_3", 3), Node("c0_0", 0), Node("carry_5", 5) >>,
     edges |-> << Edge("copy_3", NoPort, "carry_5", NoPort, Label(0, 1)),
                  Edge("c0_0", NoPort, "carry_5", NoPort, Label(0, 0)),
                  Edge("carry_5", NoPort, "carry_5", NoPort, Label(0, 1)) >>]

SvgB ==
    [svg |-> TRUE,
     nodes |-> << Node("add_1", 1), Node("steer_2", 2), Node("sink", NoId),
                  Node("store_4", 4) >>,
     edges |-> << Edge("add_1", NoPort, "steer_2", NoPort, Label(0, 1)),
                  Edge("steer_2", NoPort, "store_4", NoPort, Label(0, 0)),
                  Edge("steer_2", ResPort(1), "sink", NoPort, NoLabel) >>]

\* one instruction node whose edges differ in title ports and in labels:
\*   op_4->sink            op_4->sink [res[0]->op[0]]   op_4->sink [res[1]->op[0]]
\*   op_4:res1->sink       op_4->sink:res1
SvgPorts ==
    [svg |-> TRUE,
     nodes |-> << Node("op_4", 4), Node("sink", NoId) >>,
     edges |-> << Edge("op_4", NoPort, "sink", NoPort, NoLabel),
                  Edge("op_4", NoPort, "sink", NoPort, Label(0, 0)),
                  Edge("op_4", NoPort, "sink", NoPort, Label(1, 0)),
                  Edge("op_4", ResPort(1), "sink", NoPort, NoLabel),
                  Edge("op_4", NoPort, "sink", ResPort(1), NoLabel) >>]

\* a graph with a self-loop, an edge whose title carries a source port of
\* another name, a node without outgoing edge and a node without marker:
\*   add_1->steer_2 [res[0]->op[1]]   add_1->add_1 [res[0]->op[0]]
\*   add_1:s->sink   steer_2->add_1 [res[0]->op[1]]   steer_2->sink:res1
SvgMix ==
    [svg |-> TRUE,
     nodes |-> << Node("add_1", 1), Node("steer_2", 2), Node("c0_3", 3),
                  Node("sink", NoId) >>,
     edges |-> << Edge("add_1", NoPort, "steer_2", NoPort, Label(0, 1)),
                  Edge("add_1", NoPort, "add_1", NoPort, Label(0, 0)),
                  Edge("add_1", NamedPort, "sink", NoPort, NoLabel),
                  Edge("steer_2", NoPort, "add_1", NoPort, Label(0, 1)),
                  Edge("steer_2", NoPort, "sink", ResPort(1), NoLabel) >>]

\* a graph none of whose nodes carries a marker
SvgUnmarked ==
    [svg |-> TRUE,
     nodes |-> << Node("add_1", NoId), Node("steer_2", NoId) >>,
     edges |-> << Edge("add_1", NoPort, "steer_2", NoPort, Label(0, 1)) >>]

RenderDotFiles == {"dotMix", "dotUnmarked", "dotB"}

DotFiles == {"dotA", "dotB", "dotBad"}

\* no <svg> element (this.graphSvg is null)
NoSvg == [svg |-> FALSE, nodes |-> <<>>, edges |-> <<>>]

\* graphviz.dot(dotContent): the rendered SVG, or NoSvg when the layout throws
GraphvizDot(dot) ==
    CASE dot = "dotA" -> SvgA
      [] dot = "dotB" -> SvgB
      [] dot = "dotPorts" -> SvgPorts
      [] dot = "dotMix" -> SvgMix
      [] dot = "dotUnmarked" -> SvgUnmarked
      [] OTHER -> NoSvg

(***************************************************************************)
(* Trace Parser: parseFireLog.                                             *)
(***************************************************************************)
\* faulty variant: the first line that fails the grammar ends the parse
RECURSIVE SelectMatching_StopsAtMalformed(_)
SelectMatching_StopsAtMalformed(lines) ==
    IF lines = <<>> \/ ~Head(lines).matches THEN <<>>
    ELSE << [cycle |-> Head(lines).cycle,
             instructionId |-> Head(lines).instructionId,
             instructionName |-> Head(lines).instructionName,
             args |-> Head(lines).args] >>
            \o SelectMatching_StopsAtMalformed(Tail(lines))

RECURSIVE SelectMatching(_)
SelectMatching(lines) ==
    IF lines = <<>> THEN <<>>
    ELSE LET l == Head(lines)
             rest == SelectMatching(Tail(lines))
         IN IF l.matches
            THEN << [cycle |-> l.cycle, instructionId |-> l.instructionId,
                     instructionName |-> l.instructionName,
                     args |-> l.args] >> \o rest
            ELSE rest

\* the Map cycle -> entries in file order, as a function on the cycles present
GroupByCycle(entries) ==
    [c \in {entries[i].cycle : i \in 1..Len(entries)} |->
        SelectSeq(entries, LAMBDA e : e.cycle = c)]

\* faulty variant: the buckets of the previous trace are not cleared
parseFireLog_KeepsBuckets(s, lines) ==
    [s EXCEPT !.fireLogData = SelectMatching(lines),
              !.cycleData = GroupByCycle(SelectMatching(lines)) @@ s.cycleData]

parseFireLog(s, lines) ==
    [s EXCEPT !.fireLogData = SelectMatching(lines),
              !.cycleData = GroupByCycle(SelectMatching(lines))]

\* Math.max(...Array.from(this.cycleData.keys()))
MaxCycleOf(cycleData) ==
    IF DOMAIN cycleData = {} THEN NegInfinity
    ELSE CHOOSE m \in DOMAIN cycleData : \A c \in DOMAIN cycleData : c <= m

\* this.cycleData.get(cycle) || []
InstructionsAt(cycleData, cycle) ==
    IF cycle \in DOMAIN cycleData THEN cycleData[cycle] ELSE <<>>

(***************************************************************************)
(* Graph Binding: buildNodeMap, buildEdgeMap, _extractResIndexFromEdgeTitle*)
(***************************************************************************)
\* instruction id -> index of the node in the SVG (the last marked node wins)
buildNodeMap(svg) ==
    LET ids == {svg.nodes[i].id : i \in 1..Len(svg.nodes)} \ {NoId}
    IN [id \in ids |->
           CHOOSE i \in 1..Len(svg.nodes) :
              /\ svg.nodes[i].id = id
              /\ \A j \in 1..Len(svg.nodes) : svg.nodes[j].id = id => j <= i]

\* instruction id -> node name
buildNodeIdToName(svg) ==
    LET nm == buildNodeMap(svg)
    IN [id \in DOMAIN nm |-> svg.nodes[nm[id]].name]

RECURSIVE IndicesFrom(_, _, _)
IndicesFrom(edges, src, i) ==
    IF i > Len(edges) THEN <<>>
    ELSE (IF edges[i].src = src THEN <<i>> ELSE <<>>)
            \o IndicesFrom(edges, src, i + 1)

\* source name -> indices of its edges in SVG order
buildEdgeMap(svg) ==
    [src \in {svg.edges[i].src : i \in 1..Len(svg.edges)} |->
        IndicesFrom(svg.edges, src, 1)]

\* parseInt(m[1], 10) of the patterns, tried in the order of the code.  The
\* title never holds the text res[i]->op[j] or op[j].  The second pattern is
\* built from a string in which  \[  and  \]  are plain brackets, so that
\* (\d+) is part of a character class and not a group: where it matches,
\* m[1] is undefined and parseInt gives NaN.
_extractResIndexFromEdgeTitle(edge, nodeName) ==
    IF edge.src = nodeName /\ edge.srcPort.kind = "res" THEN NaN
    ELSE IF edge.dst = nodeName /\ edge.dstPort.kind = "res" THEN NaN
    ELSE IF edge.srcPort.kind = "res" THEN edge.srcPort.idx
    ELSE IF edge.dstPort.kind = "res" THEN edge.dstPort.idx
    ELSE 0

\* edgeTitle.startsWith(nodeName + '->')
TitleStartsWithArrow(edge, nodeName) ==
    edge.src = nodeName /\ edge.srcPort.kind = "none"

(***************************************************************************)
(* Token Queue Model.  queuedTokens maps <<targetName, inputKey>> to the   *)
(* FIFO of queued values; a pair is in the domain iff its queue exists,    *)
(* and the code never keeps an empty queue.                                *)
(***************************************************************************)
EmptyQueues == [k \in {} |-> <<>>]

\* faulty variant: the firing empties the input queues of the node
PopHeads_ClearsQueues(q, nodeName) ==
    [k \in {x \in DOMAIN q : x[1] # nodeName} |-> q[k]]

\* pop the head of each input queue of nodeName and drop the emptied queues
PopHeads(q, nodeName) ==
    LET keep == {k \in DOMAIN q : k[1] # nodeName \/ Len(q[k]) > 1}
    IN [k \in keep |-> IF k[1] = nodeName THEN Tail(q[k]) ELSE q[k]]

\* push val on the queue <<targetName, key>>, creating it when missing
Enqueue(q, targetName, key, val) ==
    LET k == <<targetName, key>>
    IN [x \in DOMAIN q \cup {k} |->
           IF x = k THEN (IF k \in DOMAIN q THEN Append(q[k], val) ELSE <<val>>)
           ELSE q[x]]

\* the input index of the token: op[j] of the label, else the res index
TargetInputIdx(edge, resIndex) ==
    IF edge.label.present THEN edge.label.op ELSE resIndex

RECURSIVE ProduceForQueues(_, _, _, _)
ProduceForQueues(s0, instr, nodeName, edgeIdxs) ==
    Only({(
        IF edgeIdxs = <<>> THEN s
        ELSE LET edge == s.graphSvg.edges[Head(edgeIdxs)]
                 resIndex == _extractResIndexFromEdgeTitle(edge, nodeName)
                 val == _getResValueForIndex(instr, resIndex)
             IN ProduceForQueues(
                  IF val # Null
                  THEN [s EXCEPT !.queuedTokens =
                           Enqueue(@, edge.dst,
                                   TargetInputIdx(edge, resIndex), val)]
                  ELSE s,
                  instr, nodeName, Tail(edgeIdxs)))
        : s \in {s0}})

EdgesBySource(s, nodeName) ==
    IF nodeName \in DOMAIN s.edgesBySource
    THEN s.edgesBySource[nodeName] ELSE <<>>

\* faulty variant: a firing produces its tokens before it consumes
RECURSIVE processInstructionsForQueues_ProduceFirst(_, _)
processInstructionsForQueues_ProduceFirst(s0, instructions) ==
    Only({(
        IF ~s.queueVisualizationEnabled \/ instructions = <<>> THEN s
        ELSE LET instr == Head(instructions)
                 bound == /\ instr.instructionId \in DOMAIN s.nodeMap
                          /\ instr.instructionId \in DOMAIN s.nodeIdToName
                 nodeName == s.nodeIdToName[instr.instructionId]
             IN processInstructionsForQueues_ProduceFirst(
                  IF bound
                  THEN [ProduceForQueues(s, instr, nodeName,
                                         EdgesBySource(s, nodeName))
                           EXCEPT !.queuedTokens = PopHeads(@, nodeName)]
                  ELSE s,
                  Tail(instructions)))
        : s \in {s0}})

RECURSIVE processInstructionsForQueues(_, _)
processInstructionsForQueues(s0, instructions) ==
    Only({(
        IF ~s.queueVisualizationEnabled \/ instructions = <<>> THEN s
        ELSE LET instr == Head(instructions)
                 bound == /\ instr.instructionId \in DOMAIN s.nodeMap
                          /\ instr.instructionId \in DOMAIN s.nodeIdToName
                 nodeName == s.nodeIdToName[instr.instructionId]
             IN processInstructionsForQueues(
                  IF bound
                  THEN ProduceForQueues(
                         [s EXCEPT !.queuedTokens = PopHeads(@, nodeName)],
                         instr, nodeName, EdgesBySource(s, nodeName))
                  ELSE s,
                  Tail(instructions)))
        : s \in {s0}})

(***************************************************************************)
(* Rendering a cycle: clearHighlights, visualizeTokens,                    *)
(* highlightConnectedEdges, updateVisualization.                           *)
(***************************************************************************)
\* faulty variant: clearHighlights that leaves the node highlights
clearHighlights_KeepsNodes(s0) ==
    Only({(
        IF ~s.graphSvg.svg THEN s
        ELSE [s EXCEPT !.highlightEdges = {}, !.tokens = <<>>])
        : s \in {s0}})

clearHighlights(s0) ==
    Only({(
        IF ~s.graphSvg.svg THEN s
        ELSE [s EXCEPT !.highlightNodes = {}, !.highlightEdges = {},
                       !.tokens = <<>>])
        : s \in {s0}})

EdgeToken(i, val) == [at |-> "edge", ref |-> i, value |-> val]
NodeToken(i, val) == [at |-> "node", ref |-> i, value |-> val]

\* the loop over relevantEdges of visualizeTokens; r carries s and placed
RECURSIVE PlaceOnEdges(_, _, _, _)
PlaceOnEdges(r0, instr, nodeName, edgeIdxs) ==
    Only({(
        IF edgeIdxs = <<>> THEN r
        ELSE LET s == r.s
                 edge == s.graphSvg.edges[Head(edgeIdxs)]
                 resIndex == _extractResIndexFromEdgeTitle(edge, nodeName)
                 val == _getResValueForIndex(instr, resIndex)
             IN PlaceOnEdges(
                  IF val = Null THEN r
                  ELSE IF s.queueVisualizationEnabled
                  THEN [s |-> [s EXCEPT !.queuedTokens =
                                  Enqueue(@, edge.dst,
                                      TargetInputIdx(edge, resIndex), val)],
                        placed |-> TRUE]
                  ELSE [s |-> [s EXCEPT !.tokens =
                                  Append(@, EdgeToken(Head(edgeIdxs), val))],
                        placed |-> TRUE],
                  instr, nodeName, Tail(edgeIdxs)))
        : r \in {r0}})

\* faulty variant: every outgoing edge is highlighted, steer or not
RECURSIVE HighlightEdges_IgnoresResolver(_, _, _, _)
HighlightEdges_IgnoresResolver(s0, instr, nodeName, edgeIdxs) ==
    Only({(
        IF edgeIdxs = <<>> THEN s
        ELSE HighlightEdges_IgnoresResolver(
               IF ~TitleStartsWithArrow(s.graphSvg.edges[Head(edgeIdxs)],
                                        nodeName) THEN s
               ELSE [s EXCEPT !.highlightEdges = @ \cup {Head(edgeIdxs)}],
               instr, nodeName, Tail(edgeIdxs)))
        : s \in {s0}})

\* faulty variant: a steer never takes the highlight off an edge
RECURSIVE HighlightEdges_NeverRemoves(_, _, _, _)
HighlightEdges_NeverRemoves(s0, instr, nodeName, edgeIdxs) ==
    Only({(
        IF edgeIdxs = <<>> THEN s
        ELSE LET i == Head(edgeIdxs)
                 edge == s.graphSvg.edges[i]
                 name == ToLowerCase(instr.instructionName)
                 val == _getResValueForIndex(instr,
                            _extractResIndexFromEdgeTitle(edge, nodeName))
             IN HighlightEdges_NeverRemoves(
                  IF ~TitleStartsWithArrow(edge, nodeName) THEN s
                  ELSE IF Includes(name, <<"s","t","e","e","r">>) /\ val = Null
                  THEN s
                  ELSE [s EXCEPT !.highlightEdges = @ \cup {i}],
                  instr, nodeName, Tail(edgeIdxs)))
        : s \in {s0}})

RECURSIVE HighlightEdges(_, _, _, _)
HighlightEdges(s0, instr, nodeName, edgeIdxs) ==
    Only({(
        IF edgeIdxs = <<>> THEN s
        ELSE LET i == Head(edgeIdxs)
                 edge == s.graphSvg.edges[i]
                 name == ToLowerCase(instr.instructionName)
                 val == _getResValueForIndex(instr,
                            _extractResIndexFromEdgeTitle(edge, nodeName))
             IN HighlightEdges(
                  IF ~TitleStartsWithArrow(edge, nodeName) THEN s
                  ELSE IF Includes(name, <<"s","t","e","e","r">>) /\ val = Null
                  THEN [s EXCEPT !.highlightEdges = @ \ {i}]
                  ELSE [s EXCEPT !.highlightEdges = @ \cup {i}],
                  instr, nodeName, Tail(edgeIdxs)))
        : s \in {s0}})

highlightConnectedEdges(s0, instr) ==
    Only({(
        IF ~s.graphSvg.svg \/ instr.instructionId \notin DOMAIN s.nodeIdToName
        THEN s
        ELSE HighlightEdges(s, instr, s.nodeIdToName[instr.instructionId],
                 EdgesBySource(s, s.nodeIdToName[instr.instructionId])))
        : s \in {s0}})

\* faulty variant: the token at the node is placed whatever was placed
PlaceAtNode_Always(r0, instr, node) ==
    Only({(
        [r.s EXCEPT !.tokens =
            Append(@, NodeToken(node,
                IF Len(instr.args) > 0 THEN instr.args[1] ELSE ""))])
        : r \in {r0}})

\* the fallback of visualizeTokens: a token at the node when none was placed
PlaceAtNode(r0, instr, node) ==
    Only({(
        IF r.placed THEN r.s
        ELSE [r.s EXCEPT !.tokens =
                 Append(@, NodeToken(node,
                     IF Len(instr.args) > 0 THEN instr.args[1] ELSE ""))])
        : r \in {r0}})

\* the body of the forEach of visualizeTokens for one instruction
VisualizeInstr(s0, instr) ==
    Only({(
        LET bound == instr.instructionId \in DOMAIN s.nodeMap
            node == s.nodeMap[instr.instructionId]
            nodeName == s.nodeIdToName[instr.instructionId]
            popped == IF s.queueVisualizationEnabled
                      THEN PopHeads(s.queuedTokens, nodeName)
                      ELSE s.queuedTokens
            lit == [s EXCEPT !.queuedTokens = popped,
                             !.highlightNodes = @ \cup {node}]
        IN highlightConnectedEdges(
             IF bound
             THEN PlaceAtNode(
                    PlaceOnEdges([s |-> lit, placed |-> FALSE], instr,
                                 nodeName, EdgesBySource(s, nodeName)),
                    instr, node)
             ELSE s,
             instr))
        : s \in {s0}})

\* faulty variant: the first event without a node ends the rendering
RECURSIVE VisualizeAll_StopsAtGap(_, _)
VisualizeAll_StopsAtGap(s, instructions) ==
    IF instructions = <<>> THEN s
    ELSE IF Head(instructions).instructionId \notin DOMAIN s.nodeMap THEN s
    ELSE VisualizeAll_StopsAtGap(VisualizeInstr(s, Head(instructions)),
                                 Tail(instructions))

RECURSIVE VisualizeAll(_, _)
VisualizeAll(s, instructions) ==
    IF instructions = <<>> THEN s
    ELSE VisualizeAll(VisualizeInstr(s, Head(instructions)),
                      Tail(instructions))

visualizeTokens(s0, instructions) ==
    Only({(
        IF ~s.graphSvg.svg THEN s ELSE VisualizeAll(s, instructions))
        : s \in {s0}})

updateVisualization(s0) ==
    Only({(
        visualizeTokens(
            [clearHighlights(s) EXCEPT !.cycleInstrCount =
                Len(InstructionsAt(s.cycleData, s.currentCycle))],
            InstructionsAt(s.cycleData, s.currentCycle)))
        : s \in {s0}})

(***************************************************************************)
(* State.  The fields of the DataflowVisualizer object, the part of the    *)
(* DOM it writes (highlight classes, transient tokens, the instruction     *)
(* count, the disabled flag of the controls), and the browser's table of   *)
(* active interval timers and of suspended renderGraph calls.              *)
(***************************************************************************)
VARIABLES dotContent, fireLogData, cycleData, currentCycle, isPlaying,
          playbackSpeed, playbackInterval, graphSvg, nodeMap, nodeIdToName,
          edgesBySource, queuedTokens, queueVisualizationEnabled, stepSize,
          highlightNodes, highlightEdges, tokens, cycleInstrCount,
          controlsEnabled, timers, pendingRenders, lastOp

vars == << dotContent, fireLogData, cycleData, currentCycle, isPlaying,
           playbackSpeed, playbackInterval, graphSvg, nodeMap, nodeIdToName,
           edgesBySource, queuedTokens, queueVisualizationEnabled, stepSize,
           highlightNodes, highlightEdges, tokens, cycleInstrCount,
           controlsEnabled, timers, pendingRenders, lastOp >>

\* the current state as one record, the argument of the operations below
Self ==
    [dotContent |-> dotContent, fireLogData |-> fireLogData,
     cycleData |-> cycleData, currentCycle |-> currentCycle,
     isPlaying |-> isPlaying, playbackSpeed |-> playbackSpeed,
     playbackInterval |-> playbackInterval, graphSvg |-> graphSvg,
     nodeMap |-> nodeMap, nodeIdToName |-> nodeIdToName,
     edgesBySource |-> edgesBySource, queuedTokens |-> queuedTokens,
     queueVisualizationEnabled |-> queueVisualizationEnabled,
     stepSize |-> stepSize, highlightNodes |-> highlightNodes,
     highlightEdges |-> highlightEdges, tokens |-> tokens,
     cycleInstrCount |-> cycleInstrCount,
     controlsEnabled |-> controlsEnabled, timers |-> timers,
     pendingRenders |-> pendingRenders]

\* the next state is the record s, reached by the operation op
Become(s, op) ==
    \E r \in {s} :
        /\ dotContent' = r.dotContent
        /\ fireLogData' = r.fireLogData
        /\ cycleData' = r.cycleData
        /\ currentCycle' = r.currentCycle
        /\ isPlaying' = r.isPlaying
        /\ playbackSpeed' = r.playbackSpeed
        /\ playbackInterval' = r.playbackInterval
        /\ graphSvg' = r.graphSvg
        /\ nodeMap' = r.nodeMap
        /\ nodeIdToName' = r.nodeIdToName
        /\ edgesBySource' = r.edgesBySource
        /\ queuedTokens' = r.queuedTokens
        /\ queueVisualizationEnabled' = r.queueVisualizationEnabled
        /\ stepSize' = r.stepSize
        /\ highlightNodes' = r.highlightNodes
        /\ highlightEdges' = r.highlightEdges
        /\ tokens' = r.tokens
        /\ cycleInstrCount' = r.cycleInstrCount
        /\ controlsEnabled' = r.controlsEnabled
        /\ timers' = r.timers
        /\ pendingRenders' = r.pendingRenders
        /\ lastOp' = op

NoTimer == 0

\* the state the constructor leaves
Constructed ==
    [dotContent |-> Null, fireLogData |-> <<>>,
     cycleData |-> [c \in {} |-> <<>>], currentCycle |-> 0,
     isPlaying |-> FALSE, playbackSpeed |-> 5, playbackInterval |-> NoTimer,
     graphSvg |-> NoSvg, nodeMap |-> [i \in {} |-> 0],
     nodeIdToName |-> [i \in {} |-> ""],
     edgesBySource |-> [n \in {} |-> <<>>], queuedTokens |-> EmptyQueues,
     queueVisualizationEnabled |-> FALSE, stepSize |-> 1,
     highlightNodes |-> {}, highlightEdges |-> {}, tokens |-> <<>>,
     cycleInstrCount |-> 0, controlsEnabled |-> FALSE, timers |-> {},
     pendingRenders |-> 0]

(***************************************************************************)
(* Playback State Machine.                                                 *)
(***************************************************************************)
MaxCycle(s) == MaxCycleOf(s.cycleData)

\* setInterval: a timer id that is not in use
FreshTimer(active) ==
    CHOOSE i \in 1..(Cardinality(active) + 1) :
        /\ \A t \in active : t.id # i
        /\ \A j \in 1..(i - 1) : \E t \in active : t.id = j

\* faulty variant: pause() that forgets clearInterval
pause_KeepsTimer(s0) ==
    Only({(
        [s EXCEPT !.isPlaying = FALSE, !.playbackInterval = NoTimer])
        : s \in {s0}})

pause(s0) ==
    Only({(
        [s EXCEPT !.isPlaying = FALSE,
                  !.timers = IF s.playbackInterval # NoTimer
                             THEN {t \in @ : t.id # s.playbackInterval}
                             ELSE @,
                  !.playbackInterval = NoTimer])
        : s \in {s0}})

\* faulty variant: play() without the early return when already playing
play_NoGuard(s0) ==
    Only({(
        [s EXCEPT !.isPlaying = TRUE,
                  !.playbackInterval = FreshTimer(s.timers),
                  !.timers = @ \cup
                      {[id |-> FreshTimer(s.timers),
                        interval |-> 1000 \div s.playbackSpeed]}])
        : s \in {s0}})

play(s0) ==
    Only({(
        IF s.isPlaying THEN s
        ELSE [s EXCEPT !.isPlaying = TRUE,
                       !.playbackInterval = FreshTimer(s.timers),
                       !.timers = @ \cup
                           {[id |-> FreshTimer(s.timers),
                             interval |-> 1000 \div s.playbackSpeed]}])
        : s \in {s0}})

\* faulty variant: reset() that forgets queuedTokens.clear()
reset_KeepsQueues(s) ==
    updateVisualization([pause(s) EXCEPT !.currentCycle = 0])

reset(s) ==
    updateVisualization([pause(s) EXCEPT !.currentCycle = 0,
                                         !.queuedTokens = EmptyQueues])

\* the for loop of replayToCurrentCycle, from cycle up to currentCycle - 1
RECURSIVE ReplayFrom(_, _)
ReplayFrom(s0, cycle) ==
    Only({(
        IF cycle >= s.currentCycle THEN s
        ELSE ReplayFrom(
               processInstructionsForQueues(
                   s, InstructionsAt(s.cycleData, cycle)),
               cycle + 1))
        : s \in {s0}})

\* faulty variant: replayToCurrentCycle() that forgets queuedTokens.clear()
replayToCurrentCycle_KeepsQueues(s) == updateVisualization(ReplayFrom(s, 0))

replayToCurrentCycle(s) ==
    updateVisualization(ReplayFrom([s EXCEPT !.queuedTokens = EmptyQueues], 0))

\* replayToCurrentCycle in queue mode, else updateVisualization
ReplayOrUpdate(s0) ==
    Only({(
        IF s.queueVisualizationEnabled THEN replayToCurrentCycle(s)
        ELSE updateVisualization(s))
        : s \in {s0}})

previousCycle(s0) ==
    Only({(
        IF s.currentCycle > 0
        THEN ReplayOrUpdate(
               [s EXCEPT !.currentCycle =
                             Max2(0, Plus(s.currentCycle, 0 - s.stepSize))])
        ELSE s)
        : s \in {s0}})

\* faulty variant: nextCycle() that stops the playback at the last cycle
nextCycle_PausesAtEnd(s0) ==
    Only({(
        IF s.currentCycle < MaxCycle(s)
        THEN IF Plus(s.currentCycle, s.stepSize) >= MaxCycle(s)
             THEN pause(updateVisualization(
                        [s EXCEPT !.currentCycle = MaxCycle(s)]))
             ELSE updateVisualization(
                    [s EXCEPT !.currentCycle = Plus(s.currentCycle, s.stepSize)])
        ELSE s)
        : s \in {s0}})

\* faulty variant: nextCycle() without Math.min
nextCycle_NoClamp(s0) ==
    Only({(
        IF s.currentCycle < MaxCycle(s)
        THEN updateVisualization(
               [s EXCEPT !.currentCycle = Plus(s.currentCycle, s.stepSize)])
        ELSE s)
        : s \in {s0}})

nextCycle(s0) ==
    Only({(
        IF s.currentCycle < MaxCycle(s)
        THEN updateVisualization(
               [s EXCEPT !.currentCycle =
                   Min2(MaxCycle(s), Plus(s.currentCycle, s.stepSize))])
        ELSE s)
        : s \in {s0}})

\* faulty variant: jumpToCycle() without the clamp to maxCycle
jumpToCycle_NoClamp(s0, targetCycle) ==
    Only({(
        IF isNaN(targetCycle) \/ targetCycle < 0 THEN s
        ELSE ReplayOrUpdate([s EXCEPT !.currentCycle = targetCycle]))
        : s \in {s0}})

\* targetCycle is parseInt(input.value)
jumpToCycle(s0, targetCycle) ==
    Only({(
        IF isNaN(targetCycle) \/ targetCycle < 0 THEN s
        ELSE ReplayOrUpdate(
               [s EXCEPT !.currentCycle =
                             Min2(MaxCycle(s), Max2(0, targetCycle))]))
        : s \in {s0}})

\* faulty variant: switching the mode off leaves the queues as they are
toggleQueueVisualization_KeepsQueues(s, checked) ==
    IF checked
    THEN replayToCurrentCycle([s EXCEPT !.queueVisualizationEnabled = TRUE])
    ELSE updateVisualization([s EXCEPT !.queueVisualizationEnabled = FALSE])

toggleQueueVisualization(s, checked) ==
    IF checked
    THEN replayToCurrentCycle([s EXCEPT !.queueVisualizationEnabled = TRUE])
    ELSE updateVisualization([s EXCEPT !.queueVisualizationEnabled = FALSE,
                                       !.queuedTokens = EmptyQueues])

\* the 'End' case of the keydown listener
EndKey(s0) ==
    Only({(
        updateVisualization([s EXCEPT !.currentCycle = MaxCycle(s)]))
        : s \in {s0}})

\* faulty variant: the interval callback without the stop at the end
IntervalCallback_NoStop(s) == nextCycle(s)

\* the callback that play() hands to setInterval
IntervalCallback(s) ==
    Only({(
        IF s1.currentCycle >= MaxCycle(s1) THEN pause(s1) ELSE s1)
        : s1 \in {nextCycle(s)}})

\* faulty variant: the listener stores the interval instead of the multiplier
SpeedSliderInput_StoresInterval(s0, value) ==
    Only({(
        IF s.isPlaying
        THEN play(pause([s EXCEPT !.playbackSpeed = 1000 \div value]))
        ELSE [s EXCEPT !.playbackSpeed = 1000 \div value])
        : s \in {s0}})

\* the input listener of speedSlider; value is parseInt(e.target.value)
SpeedSliderInput(s0, value) ==
    Only({(
        IF s.isPlaying
        THEN play(pause([s EXCEPT !.playbackSpeed = value]))
        ELSE [s EXCEPT !.playbackSpeed = value])
        : s \in {s0}})

\* faulty variant: the listener without its validity test
StepSizeInput_NoGuard(s, value) == [s EXCEPT !.stepSize = value]

\* the input listener of stepSizeInput
StepSizeInput(s, value) ==
    IF ~isNaN(value) /\ value >= 1 THEN [s EXCEPT !.stepSize = value] ELSE s

(***************************************************************************)
(* File loading: handleFireLog, handleDotFile, checkAndRenderGraph,        *)
(* renderGraph, enableControls.  renderGraph suspends at its await; the    *)
(* rest of it and of checkAndRenderGraph runs when it is resumed.          *)
(***************************************************************************)
\* checkAndRenderGraph up to the await inside renderGraph
checkAndRenderGraph(s0) ==
    Only({(
        IF s.dotContent # Null /\ Len(s.fireLogData) > 0
        THEN [s EXCEPT !.pendingRenders = @ + 1]
        ELSE s)
        : s \in {s0}})

\* handleFireLog once readFile has delivered the content
handleFireLog(s, lines) == checkAndRenderGraph(parseFireLog(s, lines))

\* handleDotFile once readFile has delivered the content
handleDotFile(s, dot) == checkAndRenderGraph([s EXCEPT !.dotContent = dot])

\* renderGraph from its await on: a failed layout is caught and changes nothing
renderGraph(s0) ==
    Only({(
        IF GraphvizDot(s.dotContent).svg
        THEN [s EXCEPT !.graphSvg = GraphvizDot(s.dotContent),
                       !.highlightNodes = {}, !.highlightEdges = {},
                       !.tokens = <<>>,
                       !.nodeMap = buildNodeMap(GraphvizDot(s.dotContent)),
                       !.nodeIdToName =
                           buildNodeIdToName(GraphvizDot(s.dotContent)),
                       !.edgesBySource =
                           buildEdgeMap(GraphvizDot(s.dotContent))]
        ELSE s)
        : s \in {s0}})

enableControls(s) == reset([s EXCEPT !.controlsEnabled = TRUE])

\* the resumed renderGraph and the rest of checkAndRenderGraph
RenderResumed(s) ==
    enableControls(renderGraph([s EXCEPT !.pendingRenders = @ - 1]))

(***************************************************************************)
(* Inputs of the operations.                                               *)
(***************************************************************************)
JumpInputs == {NaN, 0 - 1} \cup 0..MaxJumpTarget
\* the value of the speed slider, a range input with min 1 and max 10: the
\* element keeps its value inside its range
SliderValue(n) == Max2(1, Min2(10, n))
\* the positions the slider is asked to take
RawSpeedInputs == {0, 1, 5, 10, 11}
SpeedInputs == {SliderValue(n) : n \in RawSpeedInputs}
StepSizeInputs == {NaN, 0} \cup 1..MaxStepSize

\* no queue is longer than the bound of the model
QueuesBounded(s) ==
    \A k \in DOMAIN s.queuedTokens : Len(s.queuedTokens[k]) <= MaxQueueLen

\* the buttons and inputs that enableControls enables
ButtonsEnabled == controlsEnabled
\* the guard of the keydown listener
KeysEnabled == dotContent # Null /\ Len(fireLogData) > 0

Do(s, op) == \E r \in {s} : QueuesBounded(r) /\ Become(r, op)

(***************************************************************************)
(* Actions: one per handler.                                               *)
(***************************************************************************)
OnPlay == (ButtonsEnabled \/ KeysEnabled) /\ Do(play(Self), "play")

OnPause == (ButtonsEnabled \/ KeysEnabled) /\ Do(pause(Self), "pause")

OnReset == (ButtonsEnabled \/ KeysEnabled) /\ Do(reset(Self), "reset")

OnPrevious ==
    (ButtonsEnabled \/ KeysEnabled) /\ Do(previousCycle(Self), "previousCycle")

OnNext == (ButtonsEnabled \/ KeysEnabled) /\ Do(nextCycle(Self), "nextCycle")

OnEndKey == KeysEnabled /\ Do(EndKey(Self), "end")

OnJump ==
    /\ ButtonsEnabled
    /\ \E t \in JumpInputs : Do(jumpToCycle(Self, t), "jumpToCycle")

OnSpeedSlider ==
    \E v \in SpeedInputs : Do(SpeedSliderInput(Self, v), "setSpeed")

OnStepSizeInput ==
    /\ ButtonsEnabled
    /\ \E v \in StepSizeInputs : Do(StepSizeInput(Self, v), "setStepSize")

OnQueueToggle ==
    \E checked \in BOOLEAN :
        Do(toggleQueueVisualization(Self, checked), "toggleQueue")

TimerTick ==
    \E t \in timers : Do(IntervalCallback(Self), "tick")

OnFireLogLoaded ==
    /\ pendingRenders < MaxPendingRenders
    /\ \E lines \in FireLogFiles : Do(handleFireLog(Self, lines), "loadFireLog")

OnDotLoaded ==
    /\ pendingRenders < MaxPendingRenders
    /\ \E dot \in DotFiles : Do(handleDotFile(Self, dot), "loadDot")

OnRenderResumed ==
    /\ pendingRenders > 0
    /\ Do(RenderResumed(Self), "rendered")

(***************************************************************************)
(* Specifications.                                                         *)
(***************************************************************************)
\* the initial state is the record s
Start(s, op) ==
    \E r \in {s} :
        /\ dotContent = r.dotContent
        /\ fireLogData = r.fireLogData
        /\ cycleData = r.cycleData
        /\ currentCycle = r.currentCycle
        /\ isPlaying = r.isPlaying
        /\ playbackSpeed = r.playbackSpeed
        /\ playbackInterval = r.playbackInterval
        /\ graphSvg = r.graphSvg
        /\ nodeMap = r.nodeMap
        /\ nodeIdToName = r.nodeIdToName
        /\ edgesBySource = r.edgesBySource
        /\ queuedTokens = r.queuedTokens
        /\ queueVisualizationEnabled = r.queueVisualizationEnabled
        /\ stepSize = r.stepSize
        /\ highlightNodes = r.highlightNodes
        /\ highlightEdges = r.highlightEdges
        /\ tokens = r.tokens
        /\ cycleInstrCount = r.cycleInstrCount
        /\ controlsEnabled = r.controlsEnabled
        /\ timers = r.timers
        /\ pendingRenders = r.pendingRenders
        /\ lastOp = op

\* The whole program, from construction.
Init == Start(Constructed, "new")

Next ==
    \/ OnPlay
    \/ OnPause
    \/ OnReset
    \/ OnPrevious
    \/ OnNext
    \/ OnEndKey
    \/ OnJump
    \/ OnSpeedSlider
    \/ OnStepSizeInput
    \/ OnQueueToggle
    \/ TimerTick
    \/ OnFireLogLoaded
    \/ OnDotLoaded
    \/ OnRenderResumed

Spec == Init /\ [][Next]_vars

\* Playback of one loaded trace and graph: the state after the two files
\* were loaded and rendered, and the playback operations only.
Loaded(lines, dot) ==
    RenderResumed(handleDotFile(handleFireLog(Constructed, lines), dot))

InitPlayback ==
    \E lines \in FireLogFiles \ {LogEmpty}, dot \in DotFiles :
        Start(Loaded(lines, dot), "rendered")

NextPlayback ==
    \/ OnPlay
    \/ OnPause
    \/ OnReset
    \/ OnPrevious
    \/ OnNext
    \/ OnEndKey
    \/ OnJump
    \/ OnSpeedSlider
    \/ OnStepSizeInput
    \/ OnQueueToggle
    \/ TimerTick

SpecPlayback == InitPlayback /\ [][NextPlayback]_vars

\* Unattended playback: any playing state of a loaded trace and graph, and
\* the timer alone.  setInterval keeps firing while the timer is active.
InitAutoPlay ==
    \E lines \in FireLogFiles \ {LogEmpty}, dot \in DotFiles,
       v \in SpeedInputs, n \in 1..MaxStepSize, checked \in BOOLEAN,
       c \in 0..MaxJumpTarget :
        Start(play(jumpToCycle(
                toggleQueueVisualization(
                    StepSizeInput(SpeedSliderInput(Loaded(lines, dot), v), n),
                    checked), c)), "play")

NextAutoPlay == TimerTick

SpecAutoPlay ==
    InitAutoPlay /\ [][NextAutoPlay]_vars /\ WF_vars(TimerTick)

\* Rendering of single-event traces: a trace of one firing line and the
\* graph SvgPorts were loaded and rendered; the operations re-render cycle 0.
InitPorts ==
    \E name \in PortOpcodeNames : \E args \in PortArgs(name) :
        Start(Loaded(PortLog(name, args), "dotPorts"), "rendered")

NextPorts ==
    \/ OnReset
    \/ OnJump
    \/ OnQueueToggle

SpecPorts == InitPorts /\ [][NextPorts]_vars

\* the status line of handleFireLog,  Loaded: <name> (<n> entries) : the
\* numbers that the loading of a trace reports
fireLogStatus(s) == [entries |-> Len(s.fireLogData)]

\* Loading of trace files, one after the other, with no graph chosen.
OnTraceLoaded ==
    \E lines \in ParseFiles : Do(handleFireLog(Self, lines), "loadFireLog")

InitParse == Start(Constructed, "new")

NextParse == OnTraceLoaded

SpecParse == InitParse /\ [][NextParse]_vars

\* Rendering of cycles with bound and unbound events and repeated firings:
\* a trace of RenderLogFiles and a graph of RenderDotFiles were loaded and
\* rendered; the operations that move between cycles and the queue toggle.
InitRender ==
    \E lines \in RenderLogFiles, dot \in RenderDotFiles :
        Start(Loaded(lines, dot), "rendered")

NextRender ==
    \/ OnReset
    \/ OnPrevious
    \/ OnNext
    \/ OnEndKey
    \/ OnJump
    \/ OnStepSizeInput
    \/ OnQueueToggle

SpecRender == InitRender /\ [][NextRender]_vars

(***************************************************************************)
(* Properties.                                                             *)
(***************************************************************************)
\* the queue contents only, for comparisons
Queues(s) == s.queuedTokens

\* reset() followed by forward steps of size 1 until currentCycle = target
RECURSIVE StepForwardTo(_, _)
StepForwardTo(s, target) ==
    IF s.currentCycle >= target \/ s.currentCycle >= MaxCycle(s) THEN s
    ELSE StepForwardTo(nextCycle(s), target)

ResetThenStepTo(s, target) ==
    StepForwardTo(reset(StepSizeInput(s, 1)), target)

\* C1: in token-queue mode, for every targetCycle in [0, maxCycle], the
\* queue contents after seek(targetCycle) from the current state equal the
\* contents after reset() and forward steps of size 1 up to targetCycle.
C1_SeekEqualsStepwiseReplay ==
    queueVisualizationEnabled =>
        \A target \in 0..MaxCycle(Self) :
            /\ jumpToCycle(Self, target).currentCycle = target
            /\ ResetThenStepTo(Self, target).currentCycle = target
            /\ Queues(jumpToCycle(Self, target))
                   = Queues(ResetThenStepTo(Self, target))

\* a seek in queue mode has arrived at the last cycle with tokens queued
C1_Witness ==
    /\ lastOp = "jumpToCycle"
    /\ queueVisualizationEnabled
    /\ currentCycle = MaxCycle(Self)
    /\ currentCycle > 0
    /\ queuedTokens # EmptyQueues
    /\ queuedTokens = Queues(ResetThenStepTo(Self, currentCycle))

\* the queues obtained from empty queues by applying the firing events of
\* the cycles 0..currentCycle in order
HistoryQueues(s) ==
    Queues(ReplayFrom([s EXCEPT !.queuedTokens = EmptyQueues,
                                !.currentCycle = s.currentCycle + 1], 0))

\* C2: in token-queue mode, after any sequence of playback operations the
\* queue contents equal those obtained from empty queues by applying the
\* firing events of every cycle 0..currentCycle once, in order.
C2_QueuesEqualHistory ==
    queueVisualizationEnabled => queuedTokens = HistoryQueues(Self)

\* C3: for a loaded trace with maximum cycle M and currentCycle c in [0, M],
\* a forward step sets currentCycle to min(M, c + s) and a backward step
\* sets it to max(0, c - s).
C3_StepClamps ==
    [][(0 <= currentCycle /\ currentCycle <= MaxCycle(Self)) =>
          /\ lastOp' = "nextCycle" =>
                currentCycle' = Min2(MaxCycle(Self), currentCycle + stepSize)
          /\ lastOp' = "previousCycle" =>
                currentCycle' = Max2(0, currentCycle - stepSize)]_vars

\* a forward step of size 2 has arrived at the maximum cycle, where a
\* further forward step changes nothing
C3_Witness ==
    /\ lastOp = "nextCycle"
    /\ stepSize = 2
    /\ currentCycle = MaxCycle(Self)
    /\ nextCycle(Self) = Self

\* C4: with a non-empty trace loaded, 0 <= currentCycle <= maxCycle in
\* every state reachable by the playback operations.
C4_CycleInRange ==
    /\ 0 <= currentCycle
    /\ currentCycle <= MaxCycle(Self)

\* the End key has moved playback to the maximum cycle while playing
C4_Witness ==
    /\ lastOp = "end"
    /\ isPlaying
    /\ currentCycle = MaxCycle(Self)
    /\ currentCycle > 0

\* C5: while playing with no user input every tick is one forward step of
\* stepSize; the tick whose resulting cycle is >= maxCycle makes the machine
\* idle with the timer cancelled; playback eventually is idle at maxCycle
\* and currentCycle does not change afterwards.
C5_PlaybackReachesEnd ==
    /\ isPlaying ~> (~isPlaying /\ timers = {}
                        /\ currentCycle = MaxCycle(Self))
    /\ [][lastOp' = "tick" =>
            /\ currentCycle' = Min2(MaxCycle(Self), currentCycle + stepSize)
            /\ currentCycle' >= MaxCycle(Self) =>
                   (~isPlaying' /\ timers' = {})
            /\ currentCycle' < MaxCycle(Self) => isPlaying']_vars
    /\ [][~isPlaying => currentCycle' = currentCycle]_vars

\* a tick has reached the maximum cycle and stopped the timer
C5_Witness ==
    /\ lastOp = "tick"
    /\ ~isPlaying
    /\ timers = {}
    /\ currentCycle = MaxCycle(Self)

\* C6: at most one periodic timer exists, a timer exists iff isPlaying, and
\* play() while playing changes nothing.
C6_OneTimerIffPlaying ==
    /\ Cardinality(timers) <= 1
    /\ (timers # {}) <=> isPlaying
    /\ isPlaying => /\ \E t \in timers : t.id = playbackInterval
                    /\ play(Self) = Self

\* play() has started the timer after the speed was changed
C6_Witness ==
    /\ lastOp = "play"
    /\ isPlaying
    /\ Cardinality(timers) = 1
    /\ playbackSpeed # 5

\* C7: after pause() isPlaying is false and no timer is left, so that no
\* tick can run until play(); a second pause() changes nothing.
C7_PauseCancelsAndIsIdempotent ==
    /\ [][lastOp' = "pause" =>
            /\ ~isPlaying'
            /\ timers' = {}
            /\ playbackInterval' = NoTimer
            /\ pause(Self') = Self'
            /\ currentCycle' = currentCycle
            /\ queuedTokens' = queuedTokens]_vars
    /\ [][lastOp' = "tick" => isPlaying]_vars

\* pause() has stopped a playback that was under way
C7_Witness ==
    /\ lastOp = "pause"
    /\ ~isPlaying
    /\ 0 < currentCycle
    /\ currentCycle < MaxCycle(Self)

C9_LoadCancelsTimerFirst ==
    [][(isPlaying /\ lastOp' \in {"loadFireLog", "loadDot"}) =>
          (~isPlaying' /\ timers' = {})]_vars

\* C10: while playing, a manual forward step and a timer tick applied to
\* the same state yield the same currentCycle, isPlaying, timer and queues.
C10_ManualStepEqualsTick ==
    isPlaying =>
        LET m == nextCycle(Self)
            t == IntervalCallback(Self)
        IN /\ m.currentCycle = t.currentCycle
           /\ m.isPlaying = t.isPlaying
           /\ m.timers = t.timers
           /\ m.playbackInterval = t.playbackInterval
           /\ Queues(m) = Queues(t)

\* the operations of the playback buttons and keyboard shortcuts
PlaybackOps ==
    {"play", "pause", "reset", "previousCycle", "nextCycle", "end",
     "jumpToCycle"}

\* C11: playback operations are accepted only once a parsed trace and a
\* successfully rendered graph are available; after a failed rendering the
\* playback controls stay disabled.
C11_ControlsNeedTraceAndGraph ==
    /\ [](controlsEnabled => (Len(fireLogData) > 0 /\ graphSvg.svg))
    /\ [][lastOp' \in PlaybackOps =>
            (Len(fireLogData) > 0 /\ graphSvg.svg)]_vars

C14_StepSizeClampedToOne ==
    /\ stepSize >= 1
    /\ \A v \in StepSizeInputs \ {NaN} :
           StepSizeInput(Self, v) = [Self EXCEPT !.stepSize = Max2(1, v)]

\* C14 amended: stepSize >= 1 in every reachable state; an input below 1 or
\* non-numeric is rejected and leaves stepSize as it was; an input >= 1
\* becomes the stepSize; setStepSize changes no other field.
C14_StepSizeAtLeastOne ==
    /\ [](/\ stepSize >= 1
          /\ \A v \in StepSizeInputs :
                (isNaN(v) \/ v < 1) => StepSizeInput(Self, v) = Self)
    /\ [][lastOp' = "setStepSize" =>
            /\ stepSize' >= 1
            /\ stepSize' # stepSize => stepSize' \in StepSizeInputs
            /\ [Self' EXCEPT !.stepSize = 1] = [Self EXCEPT !.stepSize = 1]]_vars

\* the step size was set to 2 during playback away from cycle 0; an input
\* of 0 would now be rejected
C14_Witness ==
    /\ lastOp = "setStepSize"
    /\ stepSize = 2
    /\ currentCycle > 0
    /\ StepSizeInput(Self, 0).stepSize = 2

\* a step that completes the loading of a file: the resumed rendering, or
\* a load handler that starts no rendering
LoadCompletes ==
    \/ lastOp' = "rendered"
    \/ /\ lastOp' \in {"loadFireLog", "loadDot"}
       /\ pendingRenders' = pendingRenders

\* C15: when the loading of a new trace or graph completes, the playback
\* state has its defaults (currentCycle 0, not playing, default speed,
\* stepSize 1), whatever it was before the load.
C15_LoadResetsToDefaults ==
    [][LoadCompletes =>
          /\ currentCycle' = Constructed.currentCycle
          /\ isPlaying' = Constructed.isPlaying
          /\ playbackSpeed' = Constructed.playbackSpeed
          /\ stepSize' = Constructed.stepSize]_vars

\* the example trace and a graph with nodes of id 3, 0, 5 and an edge 0->5
ExampleLoaded ==
    /\ fireLogData = SelectMatching(LogA)
    /\ cycleData = GroupByCycle(SelectMatching(LogA))
    /\ graphSvg = SvgA
    /\ nodeMap = buildNodeMap(SvgA)
    /\ nodeIdToName = buildNodeIdToName(SvgA)
    /\ edgesBySource = buildEdgeMap(SvgA)

\* in the rendering of s, the edge from the node of id a to the node of id
\* b carries a transient token of value val
EdgeCarries(s, a, b, val) ==
    \E i \in 1..Len(s.graphSvg.edges) :
        /\ s.graphSvg.edges[i].src = s.nodeIdToName[a]
        /\ s.graphSvg.edges[i].dst = s.nodeIdToName[b]
        /\ \E k \in 1..Len(s.tokens) : s.tokens[k] = EdgeToken(i, val)

RendersCycle ==
    \/ lastOp' \in {"reset", "end", "toggleQueue", "rendered"}
    \/ lastOp' \in {"nextCycle", "tick"} /\ currentCycle < MaxCycle(Self)
    \/ lastOp' = "previousCycle" /\ currentCycle > 0
    \/ lastOp' = "jumpToCycle" /\ currentCycle' # currentCycle

\* the indexed nodes bound to the instruction ids of the events of the
\* current cycle of s
BoundNodes(s) ==
    {s.nodeMap[e.instructionId] :
        e \in {x \in {InstructionsAt(s.cycleData, s.currentCycle)[k] :
                        k \in 1..Len(InstructionsAt(s.cycleData,
                                                    s.currentCycle))} :
                  x.instructionId \in DOMAIN s.nodeMap}}

\* C17: after any operation that renders a cycle the highlighted nodes are
\* exactly the indexed nodes bound to the instruction ids of the events of
\* CycleIndex[currentCycle] (none when currentCycle has no bucket); no node
\* highlight of an earlier rendering persists.
C17_HighlightedNodesAreTheFiring ==
    [][RendersCycle => highlightNodes' = BoundNodes(Self')]_vars

\* a backward step from a cycle with highlighted nodes has rendered a cycle
\* that has no bucket in a non-empty trace: nothing is highlighted
C17_Witness ==
    /\ lastOp = "previousCycle"
    /\ graphSvg = SvgA
    /\ cycleData = GroupByCycle(SelectMatching(LogA))
    /\ currentCycle \notin DOMAIN cycleData
    /\ highlightNodes = {}

\* the events of the current cycle of s, in file order
CycleEvents(s) == InstructionsAt(s.cycleData, s.currentCycle)

\* the positions of the events of the current cycle of s that fire the
\* node of name nodeName
FiringsOf(s, nodeName) ==
    {k \in 1..Len(CycleEvents(s)) :
        /\ CycleEvents(s)[k].instructionId \in DOMAIN s.nodeIdToName
        /\ s.nodeIdToName[CycleEvents(s)[k].instructionId] = nodeName}

\* the output port of an edge as read from its label  res[i]->op[j] ; port 0
\* for an edge without such a label
LabelPort(edge) == IF edge.label.present THEN edge.label.res ELSE 0

\* name.includes('steer')
SteerShaped(instr) ==
    Includes(ToLowerCase(instr.instructionName), <<"s","t","e","e","r">>)

HighlightDecided(s, i) ==
    LET edge == s.graphSvg.edges[i]
        ks == FiringsOf(s, edge.src)
        last == CHOOSE k \in ks : \A j \in ks : j <= k
        instr == CycleEvents(s)[last]
    IN /\ ks # {}
       /\ TitleStartsWithArrow(edge, edge.src)
       /\ \/ ~SteerShaped(instr)
          \/ _getResValueForIndex(instr,
                 _extractResIndexFromEdgeTitle(edge, edge.src)) # Null

TokensOnEdge(s, i) ==
    {s.tokens[k].value :
        k \in {j \in 1..Len(s.tokens) :
                  s.tokens[j].at = "edge" /\ s.tokens[j].ref = i}}

\* C19: the output port used to resolve an edge's value is the index i of
\* the edge's label res[i]->op[j] whenever such a label is present, and
\* port 0 only for an edge without such a label: after a rendering with
\* queue mode off, the edges of a firing node carry the values that the
\* resolver returns at those ports.
C19_PortIsTheLabelIndex ==
    [][(RendersCycle /\ ~queueVisualizationEnabled') =>
          \A i \in 1..Len(graphSvg'.edges) :
             \A e \in {graphSvg'.edges[i]} :
                FiringsOf(Self', e.src) # {} =>
                   /\ _extractResIndexFromEdgeTitle(e, e.src) = LabelPort(e)
                   /\ TokensOnEdge(Self', i) =
                         {_getResValueForIndex(CycleEvents(Self')[k],
                                               LabelPort(e)) :
                             k \in FiringsOf(Self', e.src)} \ {Null}]_vars

\* an opcode name of the store, storeIndex or send shape
StoreOrSendShaped(instr) ==
    \/ Includes(ToLowerCase(instr.instructionName), <<"s","t","o","r","e">>)
    \/ Includes(ToLowerCase(instr.instructionName), <<"s","e","n","d">>)

\* the port indices that _extractResIndexFromEdgeTitle hands to the resolver
RequestedPorts == {0, 1, 2, NaN}

\* C20: for every event of the trace whose opcode name has the store,
\* storeIndex or send shape, the resolver returns absent for every requested
\* port, whatever the args are.
C20_StoreAndSendResolveAbsent ==
    \A k \in 1..Len(fireLogData) :
        StoreOrSendShaped(fireLogData[k]) =>
            \A port \in RequestedPorts :
                _getResValueForIndex(fireLogData[k], port) = Null

\* the events of the loaded trace
TraceEvents == {fireLogData[k] : k \in 1..Len(fireLogData)}

\* the lower-cased opcode name of an event includes the word w
NameIncludes(instr, w) == Includes(ToLowerCase(instr.instructionName), w)

\* C21: for every event whose opcode name has the merge shape and that has
\* at least one arg, the resolver returns args[0] for port 0 and absent for
\* every other port.
C21_MergeResolvesFirstArg ==
    \A e \in TraceEvents :
        (NameIncludes(e, <<"m","e","r","g","e">>) /\ Len(e.args) >= 1) =>
            \A port \in RequestedPorts :
                _getResValueForIndex(e, port) =
                    IF port = 0 THEN e.args[1] ELSE Null

\* the opcode names of the fixed-position shapes, by the position of res[0]
ResultAtTwo ==
    { <<"a","d","d">>, <<"m","u","l">>, <<"e","q">>, <<"a","n","d">>,
      <<"o","r","d","e","r">>, <<"l","o","a","d">> }
ResultAtOne == { <<"e","x","t","s","i">>, <<"t","r","u","n","c","i">> }
ResultAtZero ==
    { <<"c","o","n","s","t","a","n","t">>, <<"c","0">>, <<"c","o","p","y">>,
      <<"b","i","t","c","a","s","t">>, <<"f","r","e","e","z","e">> }
ResultAtThree == { <<"l","o","a","d","I","n","d","e","x">> }

\* the 0-based position of res[0] in the args of a fixed-position opcode
ResultPosition(name) ==
    CASE name \in ResultAtZero -> 0
      [] name \in ResultAtOne -> 1
      [] name \in ResultAtTwo -> 2
      [] name \in ResultAtThree -> 3

\* C22: for the fixed-position shapes the resolver at port 0 returns
\* args[2] for binary arithmetic, comparison and bitwise opcodes and for
\* load, args[1] for unary conversions, args[0] for constant, copy, bitcast
\* and freeze, args[3] for loadIndex (absent when the args list is shorter),
\* and absent for every port other than 0.
C22_FixedPositionShapes ==
    /\ \A e \in TraceEvents :
          e.instructionName \in
              (ResultAtZero \cup ResultAtOne \cup ResultAtTwo \cup ResultAtThree)
          => \A port \in RequestedPorts :
                _getResValueForIndex(e, port) =
                    IF port = 0 /\ Len(e.args) > ResultPosition(e.instructionName)
                    THEN e.args[ResultPosition(e.instructionName) + 1]
                    ELSE Null
    \* the example: add 5 3 8
    /\ _getResValueForIndex(LogB[1], 0) = "8"
    /\ _getResValueForIndex(LogB[1], 1) = Null

\* a loadIndex line with four distinguishable tokens was rendered: the
\* token on the unlabelled edge is the fourth
C22_Witness ==
    /\ lastOp = "reset"
    /\ ~queueVisualizationEnabled
    /\ Len(fireLogData) = 1
    /\ fireLogData[1].instructionName = <<"l","o","a","d","I","n","d","e","x">>
    /\ fireLogData[1].args = <<"1", "1", "1", "true">>
    /\ TokensOnEdge(Self, 1) = {"true"}

\* an event of the multi-output steer shape: dataflow.steer, three args or more
MultiOutputSteer(e) ==
    /\ NameIncludes(e, <<"d","a","t","a","f","l","o","w",".","s","t","e","e","r">>)
    /\ Len(e.args) >= 3

\* C23: for a multi-output steer (dataflow.steer, at least 3 args) the
\* resolver returns args[1] exactly for the port whose index equals
\* numeric(args[2]) and absent for every other port (for every port when
\* args[2] is not numeric).
C23_MultiOutputSteer ==
    /\ \A e \in TraceEvents :
          MultiOutputSteer(e) =>
              \A port \in RequestedPorts :
                  _getResValueForIndex(e, port) =
                      IF /\ e.args[3] \in DOMAIN NumberOf
                         /\ port = NumberOf[e.args[3]]
                      THEN e.args[2] ELSE Null
    \* the example: dataflow.steer true 2 0
    /\ _getResValueForIndex(LogB[3], 0) = "2"
    /\ _getResValueForIndex(LogB[3], 1) = Null

\* a dataflow.steer line on channel 1 was rendered in queue mode off: the
\* data token is on the edge resolved at port 1 and on no other edge
C23_Witness ==
    /\ lastOp = "jumpToCycle"
    /\ ~queueVisualizationEnabled
    /\ Len(fireLogData) = 1
    /\ MultiOutputSteer(fireLogData[1])
    /\ fireLogData[1].args = <<"1", "true", "1", "true">>
    /\ TokensOnEdge(Self, 5) = {"true"}
    /\ TokensOnEdge(Self, 1) = {}

\* an event of the single-output (true/false) steer shape: a steer that is
\* not a dataflow.steer, with decider, data and fired-flag
SingleOutputSteer(e) ==
    /\ NameIncludes(e, <<"s","t","e","e","r">>)
    /\ ~NameIncludes(e, <<"d","a","t","a","f","l","o","w",".","s","t","e","e","r">>)
    /\ Len(e.args) >= 3

\* a fired-flag is truthy when it is neither "0" nor the word false in any
\* letter case
TruthyFlag(t) == t \notin {"0", "false", "False", "FALSE"}

\* C24: for a single-output steer the resolver at port 0 returns args[1] if
\* and only if the fired-flag args[2] is truthy; it returns absent when the
\* flag is falsy and for every port other than 0.
C24_SingleOutputSteer ==
    \A e \in TraceEvents :
        SingleOutputSteer(e) =>
            \A port \in RequestedPorts :
                _getResValueForIndex(e, port) =
                    IF port = 0 /\ TruthyFlag(e.args[3])
                    THEN e.args[2] ELSE Null

\* a true_steer line whose flag is the word False in mixed case was
\* rendered: no edge carries or shows the data, the token is at the node
C24_Witness ==
    /\ lastOp = "reset"
    /\ ~queueVisualizationEnabled
    /\ Len(fireLogData) = 1
    /\ SingleOutputSteer(fireLogData[1])
    /\ fireLogData[1].args = <<"true", "1", "False">>
    /\ highlightEdges = {}
    /\ tokens = <<NodeToken(nodeMap[4], "true")>>

\* an event of the carry shape whose first arg is a transition label
LabelledCarry(e) ==
    /\ NameIncludes(e, <<"c","a","r","r","y">>)
    /\ Len(e.args) >= 1
    /\ e.args[1] \in TransitionLabels

\* C25: for a carry whose first arg is a transition label the resolver at
\* port 0 returns the token that follows the label when there is one and it
\* is numeric, and absent when no numeric token follows the label and for
\* every port other than 0.
C25_CarryAfterLabel ==
    /\ \A e \in TraceEvents :
          LabelledCarry(e) =>
              \A port \in RequestedPorts :
                  _getResValueForIndex(e, port) =
                      IF /\ port = 0
                         /\ Len(e.args) >= 2
                         /\ e.args[2] \in DOMAIN NumberOf
                      THEN e.args[2] ELSE Null
    \* the example: carry INIT->BLOCK 0
    /\ _getResValueForIndex(LogA[3], 0) = "0"

\* a carry BLOCK->INIT followed by a non-numeric token was rendered: no
\* edge carries a token, the fallback token is at the node
C25_Witness ==
    /\ lastOp = "reset"
    /\ ~queueVisualizationEnabled
    /\ Len(fireLogData) = 1
    /\ LabelledCarry(fireLogData[1])
    /\ fireLogData[1].args = <<"BLOCK->INIT", "true">>
    /\ tokens = <<NodeToken(nodeMap[4], "BLOCK->INIT")>>

Unrecognised(e) ==
    \A t \in {TestsOf(e.instructionName)} :
        ~(\/ t.carry \/ t.stream \/ t.binary \/ t.bitwise \/ t.conversion
          \/ t.constant \/ t.steer \/ t.loadindex \/ t.load \/ t.store
          \/ t.send \/ t.merge)

\* C27: for an opcode name that matches none of the recognised shapes the
\* resolver at port 0 returns the last arg when there is one and absent
\* when there is none, and absent for every port other than 0.
C27_DefaultIsLastArg ==
    \A e \in TraceEvents :
        Unrecognised(e) =>
            \A port \in RequestedPorts :
                _getResValueForIndex(e, port) =
                    IF port = 0 /\ Len(e.args) > 0
                    THEN e.args[Len(e.args)] ELSE Null

\* an invariant line (no recognised shape) with three distinguishable
\* tokens was rendered: the token on the unlabelled edge is the last one
C27_Witness ==
    /\ lastOp = "reset"
    /\ ~queueVisualizationEnabled
    /\ Len(fireLogData) = 1
    /\ fireLogData[1].instructionName = <<"i","n","v","a","r","i","a","n","t">>
    /\ Unrecognised(fireLogData[1])
    /\ fireLogData[1].args = <<"1", "1", "true">>
    /\ TokensOnEdge(Self, 1) = {"true"}

\* the positions of the lines of a file that match the grammar
MatchingLines(lines) == {i \in 1..Len(lines) : lines[i].matches}

\* the k-th smallest element of a set of positions
KthOf(S, k) == CHOOSE i \in S : Cardinality({j \in S : j <= i}) = k

\* C28: parse produces, in file order, exactly one event per line that
\* matches the grammar, carrying that line's cycle, instructionId, opcode
\* name and argument tokens; a line that fails the grammar is skipped
\* without ending the parse and without changing the events of the other
\* lines.  Checked for every file, parsed in every reachable state.
C28_OneEventPerMatchingLine ==
    \A lines \in ParseFiles :
        \A ev \in {parseFireLog(Self, lines).fireLogData} :
            /\ Len(ev) = Cardinality(MatchingLines(lines))
            /\ \A k \in 1..Len(ev) :
                  \A l \in {lines[KthOf(MatchingLines(lines), k)]} :
                      /\ ev[k].cycle = l.cycle
                      /\ ev[k].instructionId = l.instructionId
                      /\ ev[k].instructionName = l.instructionName
                      /\ ev[k].args = l.args

\* a trace whose second line is malformed would now be parsed over a
\* loaded trace: the lines before and after it give the two events
C28_Witness ==
    /\ lastOp = "loadFireLog"
    /\ Len(fireLogData) = 1
    /\ \E a \in ParseLines, b \in ParseLines :
          /\ a.matches /\ b.matches /\ a # b
          /\ Len(parseFireLog(Self, <<a, Malformed, b>>).fireLogData) = 2
          /\ parseFireLog(Self, <<a, Malformed, b>>).fireLogData[2].args = b.args

\* the positions of the events of cycle c in a sequence of events
OfCycle(ev, c) == {k \in 1..Len(ev) : ev[k].cycle = c}

RECURSIVE SumOver(_, _)
SumOver(f, S) ==
    IF S = {} THEN 0
    ELSE LET x == CHOOSE y \in S : TRUE IN f[x] + SumOver(f, S \ {x})

\* C29: after a parse every parsed event is in the bucket of its cycle and
\* in no other, the sizes of the buckets add up to the number of parsed
\* lines, each bucket lists its events in file order, and no bucket holds
\* an event of a trace parsed before.
C29_GroupingInvariant ==
    /\ DOMAIN cycleData = {fireLogData[k].cycle : k \in 1..Len(fireLogData)}
    /\ \A c \in DOMAIN cycleData :
          /\ Len(cycleData[c]) = Cardinality(OfCycle(fireLogData, c))
          /\ \A j \in 1..Len(cycleData[c]) :
                cycleData[c][j] = fireLogData[KthOf(OfCycle(fireLogData, c), j)]
    /\ SumOver([c \in DOMAIN cycleData |-> Len(cycleData[c])], DOMAIN cycleData)
          = Len(fireLogData)

\* a trace with two events of cycle 1 around an event of cycle 0 was
\* parsed: two buckets, the bucket of cycle 1 in file order
C29_Witness ==
    /\ lastOp = "loadFireLog"
    /\ Len(fireLogData) = 3
    /\ fireLogData[1].cycle = 1
    /\ fireLogData[2].cycle = 0
    /\ fireLogData[3].cycle = 1
    /\ fireLogData[1] # fireLogData[3]
    /\ cycleData[1] = <<fireLogData[1], fireLogData[3]>>
    /\ cycleData[0] = <<fireLogData[2]>>

\* the lines of a file that are not blank
NonBlankLines(lines) == {i \in 1..Len(lines) : ~IsBlank(lines[i])}

\* C30: the parser reports a count of skipped lines, and after a parse the
\* reported skipped count plus the number of parsed events equals the
\* number of non-blank input lines.
C30_SkippedCountReported ==
    \A lines \in ParseFiles :
        \A s \in {handleFireLog(Self, lines)} :
            /\ "skipped" \in DOMAIN fireLogStatus(s)
            /\ fireLogStatus(s).skipped + Len(s.fireLogData)
                  = Cardinality(NonBlankLines(lines))

\* an event whose instructionId has no indexed node
Unbound(s, e) ==
    \/ e.instructionId \notin DOMAIN s.nodeMap
    \/ e.instructionId \notin DOMAIN s.nodeIdToName

\* the events of a sequence that are bound to a node, in order
BoundOnly(s, events) == SelectSeq(events, LAMBDA e : ~Unbound(s, e))

\* C31: a graph node without an [ID:n] marker is never indexed; an event
\* whose instructionId has no indexed node highlights no node or edge and
\* places no token, while the other events of its cycle are rendered as
\* they are without it; the playback operations set currentCycle as usual,
\* also when the node index is empty.
C31_BindingGapSkipsOneEvent ==
    /\ \A id \in DOMAIN nodeMap :
           /\ graphSvg.nodes[nodeMap[id]].id = id
           /\ id # NoId
    /\ \A id \in DOMAIN nodeIdToName :
           \E i \in 1..Len(graphSvg.nodes) :
               graphSvg.nodes[i] = Node(nodeIdToName[id], id) /\ id # NoId
    /\ \A e \in TraceEvents :
           Unbound(Self, e) =>
               /\ VisualizeInstr(Self, e) = Self
               /\ processInstructionsForQueues(Self, <<e>>) = Self
    /\ \A c \in DOMAIN cycleData :
           /\ visualizeTokens(clearHighlights(Self), cycleData[c])
                = visualizeTokens(clearHighlights(Self),
                                  BoundOnly(Self, cycleData[c]))
           /\ processInstructionsForQueues(Self, cycleData[c])
                = processInstructionsForQueues(Self,
                                               BoundOnly(Self, cycleData[c]))
    /\ currentCycle < MaxCycle(Self) =>
           nextCycle(Self).currentCycle
               = Min2(MaxCycle(Self), currentCycle + stepSize)
    /\ currentCycle > 0 =>
           previousCycle(Self).currentCycle = Max2(0, currentCycle - stepSize)
    /\ \A t \in 0..MaxJumpTarget :
           jumpToCycle(Self, t).currentCycle = Min2(MaxCycle(Self), t)
    /\ EndKey(Self).currentCycle = MaxCycle(Self)
    /\ reset(Self).currentCycle = 0

\* a backward step has rendered cycle 0 of the mixed trace: the event of id
\* 9 has no node, the events of the nodes add_1 and c0_3 are rendered
C31_Witness ==
    /\ lastOp = "previousCycle"
    /\ graphSvg = SvgMix
    /\ fireLogData = SelectMatching(LogMix)
    /\ currentCycle = 0
    /\ ~queueVisualizationEnabled
    /\ \E e \in {CycleEvents(Self)[2]} :
           e.instructionId = 9 /\ Unbound(Self, e)
    /\ highlightNodes = {nodeMap[1], nodeMap[3]}
    /\ tokens = << EdgeToken(1, "8"), EdgeToken(2, "8"), EdgeToken(3, "8"),
                   NodeToken(nodeMap[3], "0") >>

\* the entries of the queue k, none when the queue does not exist
QueueAt(q, k) == IF k \in DOMAIN q THEN q[k] ELSE <<>>

\* the queue keys of the graph of s: a destination name and an input index
InputKeys(s) ==
    {<<s.graphSvg.edges[i].dst, j>> :
        i \in 1..Len(s.graphSvg.edges), j \in 0..2}

\* the values that the firing of e appends to the queue k: one for each
\* outgoing edge, from edge i on in the order of the graph, that leads to k
\* and whose resolved value is not absent
RECURSIVE ProducedFor(_, _, _, _)
ProducedFor(s, e, k, i) ==
    IF i > Len(s.graphSvg.edges) THEN <<>>
    ELSE LET edge == s.graphSvg.edges[i]
             n == s.nodeIdToName[e.instructionId]
             port == _extractResIndexFromEdgeTitle(edge, n)
             val == _getResValueForIndex(e, port)
         IN (IF /\ edge.src = n
                /\ val # Null
                /\ k = <<edge.dst, TargetInputIdx(edge, port)>>
             THEN <<val>> ELSE <<>>)
                \o ProducedFor(s, e, k, i + 1)

\* the queue k after the firing of e in s: without its oldest entry when k
\* is an input of the firing node, then the appended values
ExpectedQueueAt(s, e, k) ==
    LET old == QueueAt(s.queuedTokens, k)
    IN (IF k[1] = s.nodeIdToName[e.instructionId] /\ old # <<>>
        THEN Tail(old) ELSE old)
           \o ProducedFor(s, e, k, 1)

\* C32: in queue mode, processing one firing event (in a rendering or in a
\* silent replay) removes exactly the oldest entry of each non-empty input
\* queue of the firing node, leaves an empty or missing queue alone, and
\* appends one entry at the tail of the queue of (destination node, input
\* port) for every outgoing edge whose resolved value is not absent; no
\* other queue is changed.
C32_FiringPopsAndAppends ==
    queueVisualizationEnabled =>
        \A e \in TraceEvents :
            ~Unbound(Self, e) =>
                \A r \in {VisualizeInstr(Self, e),
                          processInstructionsForQueues(Self, <<e>>)} :
                    /\ \A k \in DOMAIN queuedTokens
                                  \cup DOMAIN r.queuedTokens
                                  \cup InputKeys(Self) :
                           QueueAt(r.queuedTokens, k)
                               = ExpectedQueueAt(Self, e, k)
                    /\ \A k \in DOMAIN r.queuedTokens :
                           r.queuedTokens[k] # <<>>

\* a forward step in queue mode has rendered cycle 1 of the mixed trace:
\* the steer has consumed the "8" queued at its input 1 in cycle 0, and
\* its two firings have queued "2" at input 1 of add_1 and "5" at sink
C32_Witness ==
    /\ lastOp = "nextCycle"
    /\ queueVisualizationEnabled
    /\ graphSvg = SvgMix
    /\ fireLogData = SelectMatching(LogMix)
    /\ currentCycle = 1
    /\ queuedTokens = (<<"add_1", 0>> :> <<"8">>) @@ (<<"sink", 0>> :> <<"8">>)
                        @@ (<<"add_1", 1>> :> <<"2">>)
                        @@ (<<"sink", 1>> :> <<"5">>)

\* the value that the firing of e sends along edge i of s
ValueOnEdge(s, e, i) ==
    _getResValueForIndex(e,
        _extractResIndexFromEdgeTitle(s.graphSvg.edges[i],
                                      s.nodeIdToName[e.instructionId]))

\* the outgoing edges of the node of e that carry a value
ValueEdges(s, e) ==
    {i \in 1..Len(s.graphSvg.edges) :
        /\ s.graphSvg.edges[i].src = s.nodeIdToName[e.instructionId]
        /\ ValueOnEdge(s, e, i) # Null}

\* the transient tokens that r has and s did not have
NewTokens(s, r) == SubSeq(r.tokens, Len(s.tokens) + 1, Len(r.tokens))

\* the queue that receives the token of edge i when e fires
KeyOfEdge(s, e, i) ==
    << s.graphSvg.edges[i].dst,
       TargetInputIdx(s.graphSvg.edges[i],
           _extractResIndexFromEdgeTitle(s.graphSvg.edges[i],
                                         s.nodeIdToName[e.instructionId])) >>

NodeNames(s) == {s.graphSvg.nodes[i].name : i \in 1..Len(s.graphSvg.nodes)}

\* C34: the edge port fallback chain is total: for every edge title and
\* every node name it returns a non-negative integer, and it returns 0
\* when the title holds no res pattern.
C34_PortIsNonNegativeInteger ==
    \A i \in 1..Len(graphSvg.edges) :
        \A n \in NodeNames(Self) :
            /\ _extractResIndexFromEdgeTitle(graphSvg.edges[i], n) \in Nat
            /\ (/\ graphSvg.edges[i].srcPort.kind # "res"
                /\ graphSvg.edges[i].dstPort.kind # "res")
                  => _extractResIndexFromEdgeTitle(graphSvg.edges[i], n) = 0

\* the events of a cycle without those that a later event of the same
\* instructionId follows
RECURSIVE LastPerNode(_)
LastPerNode(events) ==
    IF events = <<>> THEN <<>>
    ELSE (IF \E k \in 2..Len(events) :
                 events[k].instructionId = Head(events).instructionId
          THEN <<>> ELSE << Head(events) >>)
            \o LastPerNode(Tail(events))

\* the transient tokens of each event of a cycle rendered on its own, in
\* file order
RECURSIVE TokensOfEach(_, _)
TokensOfEach(s, events) ==
    IF events = <<>> THEN <<>>
    ELSE NewTokens(s, VisualizeInstr(s, Head(events)))
            \o TokensOfEach(s, Tail(events))

\* C35 as stated: if two events of a cycle target the same node, the
\* rendered highlight and token state is the one produced by the later
\* event alone.
C35_LaterEventAlone ==
    \A c \in DOMAIN cycleData :
        LET full == visualizeTokens(clearHighlights(Self), cycleData[c])
            last == visualizeTokens(clearHighlights(Self),
                                    LastPerNode(cycleData[c]))
        IN /\ full.highlightNodes = last.highlightNodes
           /\ full.highlightEdges = last.highlightEdges
           /\ full.tokens = last.tokens

\* C35 amended: if two events of a cycle target the same node, the
\* highlights of the node and of its outgoing edges are those produced by
\* the later event alone, while the tokens are those of every event: each
\* event places its own tokens in file order, and in queue mode each is
\* applied to the queues in turn.
C35_LaterHighlightAllTokens ==
    /\ \A c \in DOMAIN cycleData :
        LET full == visualizeTokens(clearHighlights(Self), cycleData[c])
            last == visualizeTokens(clearHighlights(Self),
                                    LastPerNode(cycleData[c]))
        IN /\ full.highlightNodes = last.highlightNodes
           /\ full.highlightEdges = last.highlightEdges
           /\ full.tokens = TokensOfEach(clearHighlights(Self), cycleData[c])
           /\ full.queuedTokens =
                 processInstructionsForQueues(Self, cycleData[c]).queuedTokens
    /\ (graphSvg.svg /\ ~queueVisualizationEnabled) =>
          /\ highlightEdges =
                visualizeTokens(clearHighlights(Self),
                                LastPerNode(CycleEvents(Self))).highlightEdges
          /\ tokens = TokensOfEach(clearHighlights(Self), CycleEvents(Self))

\* a seek has rendered cycle 1 of the mixed trace, in which the steer
\* fires on channel 0 and then on channel 1: only the edge of channel 1 is
\* highlighted, and the tokens of both firings are on the edges
C35_Witness ==
    /\ lastOp = "jumpToCycle"
    /\ ~queueVisualizationEnabled
    /\ graphSvg = SvgMix
    /\ fireLogData = SelectMatching(LogMix)
    /\ currentCycle = 1
    /\ Len(CycleEvents(Self)) = 2
    /\ CycleEvents(Self)[1].instructionId = CycleEvents(Self)[2].instructionId
    /\ highlightNodes = {nodeMap[2]}
    /\ highlightEdges = {5}
    /\ tokens = << EdgeToken(4, "2"), EdgeToken(5, "5") >>

\* the port indices the resolver is probed with: every position of the
\* longest argument list, one beyond it, and NaN
ProbedPorts == 0..MaxArgs \cup {NaN}

\* C36: the resolver is total with a safe range: for every opcode name,
\* every argument list (empty or shorter than the shape expects included)
\* and every port index it returns absent or an element of the arguments.
C36_ResolverTotalAndSafe ==
    \A e \in TraceEvents :
        \A port \in ProbedPorts :
            \/ _getResValueForIndex(e, port) = Null
            \/ \E i \in 1..Len(e.args) :
                   e.args[i] = _getResValueForIndex(e, port)

\* a loadIndex line with one argument, where the shape reads position 3,
\* was rendered: the resolver returns absent at each port and the only
\* token is the one at the node
C36_Witness ==
    /\ lastOp = "toggleQueue"
    /\ ~queueVisualizationEnabled
    /\ Len(fireLogData) = 1
    /\ fireLogData[1].instructionName = <<"l","o","a","d","I","n","d","e","x">>
    /\ fireLogData[1].args = <<"1">>
    /\ \A port \in ProbedPorts :
           _getResValueForIndex(fireLogData[1], port) = Null
    /\ tokens = << NodeToken(nodeMap[4], "1") >>

\* C37: frame conditions of the playback operations: a forward step, a
\* backward step, a seek and the End key leave isPlaying, the timer, the
\* speed multiplier and stepSize unchanged; play and pause leave
\* currentCycle, the speed multiplier and stepSize unchanged; setSpeed while
\* idle does not start playback and setSpeed while playing leaves it
\* playing.
C37_PlaybackFrames ==
    [][/\ lastOp' \in {"nextCycle", "previousCycle", "jumpToCycle", "end"} =>
            /\ isPlaying' = isPlaying
            /\ timers' = timers
            /\ playbackInterval' = playbackInterval
            /\ playbackSpeed' = playbackSpeed
            /\ stepSize' = stepSize
       /\ lastOp' \in {"play", "pause"} =>
            /\ currentCycle' = currentCycle
            /\ playbackSpeed' = playbackSpeed
            /\ stepSize' = stepSize
       /\ lastOp' = "setSpeed" =>
            /\ isPlaying' = isPlaying
            /\ (timers' # {}) <=> (timers # {})
            /\ currentCycle' = currentCycle
            /\ stepSize' = stepSize]_vars

\* a manual forward step of size 2 has reached the last cycle during a
\* playback at a changed speed: the playback and its timer go on
C37_Witness ==
    /\ lastOp = "nextCycle"
    /\ isPlaying
    /\ Cardinality(timers) = 1
    /\ playbackSpeed # Constructed.playbackSpeed
    /\ stepSize = 2
    /\ currentCycle = MaxCycle(Self)

\* C38: whenever queue visualization is disabled the token-queue state is
\* empty, in every state reachable by toggles, steps, seeks, ticks and
\* resets.
C38_DisabledMeansNoQueues ==
    ~queueVisualizationEnabled => queuedTokens = EmptyQueues

\* the mode was switched off at a cycle > 0 at which it holds queued tokens
\* when it is on
C38_Witness ==
    /\ lastOp = "toggleQueue"
    /\ ~queueVisualizationEnabled
    /\ currentCycle > 0
    /\ queuedTokens = EmptyQueues
    /\ toggleQueueVisualization(Self, TRUE).queuedTokens # EmptyQueues

\* the edges that carry a transient token in the rendering of s
TokenEdges(s) ==
    {s.tokens[k].ref : k \in {j \in 1..Len(s.tokens) : s.tokens[j].at = "edge"}}

\* C39: in every rendered cycle, every edge on which a token is placed for
\* a firing event is also highlighted, whatever the form of the edge title
\* (titles that carry port suffixes included).
C39_TokenEdgesAreHighlighted ==
    TokenEdges(Self) \subseteq highlightEdges

\* the queues after the firing of e in s, computed key by key
ExpectedQueues(s, e) ==
    [k \in {x \in DOMAIN s.queuedTokens \cup InputKeys(s) :
               ExpectedQueueAt(s, e, x) # <<>>} |-> ExpectedQueueAt(s, e, k)]

\* the queues after the firings of the events, one after the other in the
\* order of the sequence; an event without a node changes nothing
RECURSIVE ExpectedAfter(_, _)
ExpectedAfter(s, events) ==
    IF events = <<>> THEN s.queuedTokens
    ELSE IF Unbound(s, Head(events)) THEN ExpectedAfter(s, Tail(events))
    ELSE ExpectedAfter([s EXCEPT !.queuedTokens =
                                     ExpectedQueues(s, Head(events))],
                       Tail(events))

\* the mixed trace and graph are loaded
MixLoaded ==
    /\ graphSvg = SvgMix
    /\ fireLogData = SelectMatching(LogMix)

\* C40: in queue mode the events of a cycle are applied in trace-file
\* order and, within one firing, consumption precedes production: a token
\* that a node enqueues onto its own input port via a self-loop edge is not
\* consumed by that same firing, while a token produced by an earlier
\* event of a cycle is consumed by a later event of the same cycle.
C40_ConsumeThenProduceInFileOrder ==
    queueVisualizationEnabled =>
        /\ \A c \in DOMAIN cycleData :
              /\ visualizeTokens(Self, cycleData[c]).queuedTokens
                    = ExpectedAfter(Self, cycleData[c])
              /\ processInstructionsForQueues(Self, cycleData[c]).queuedTokens
                    = ExpectedAfter(Self, cycleData[c])
        /\ \A e \in TraceEvents :
              ~Unbound(Self, e) =>
                 \A i \in ValueEdges(Self, e) :
                    graphSvg.edges[i].dst = nodeIdToName[e.instructionId] =>
                       \A r \in {VisualizeInstr(Self, e),
                                 processInstructionsForQueues(Self, <<e>>)} :
                          \E q \in {QueueAt(r.queuedTokens,
                                            KeyOfEdge(Self, e, i))} :
                             /\ q # <<>>
                             /\ q[Len(q)] = ValueOnEdge(Self, e, i)
                             /\ Len(q) >= Len(QueueAt(queuedTokens,
                                                KeyOfEdge(Self, e, i)))
        /\ MixLoaded =>
              processInstructionsForQueues(
                  [Self EXCEPT !.queuedTokens = EmptyQueues],
                  cycleData[2]).queuedTokens
                = (<<"steer_2", 1>> :> <<"2">>) @@ (<<"add_1", 0>> :> <<"2">>)
                    @@ (<<"sink", 0>> :> <<"2">>)

\* a forward step of size 2 in queue mode has rendered cycle 2 of the mixed
\* trace on the queues of cycle 0: the add has consumed the "2" that the
\* steer queued at its input 1 in the same cycle and the "8" at its input
\* 0, and the "2" that it sent along its self-loop is queued at its input 0
C40_Witness ==
    /\ lastOp = "nextCycle"
    /\ queueVisualizationEnabled
    /\ MixLoaded
    /\ stepSize = 2
    /\ currentCycle = 2
    /\ queuedTokens = (<<"steer_2", 1>> :> <<"2">>) @@ (<<"add_1", 0>> :> <<"2">>)
                        @@ (<<"sink", 0>> :> <<"8", "2">>)

====
